---- MODULE Spec2Model ----
(***************************************************************************)
(* A model of RemoteFileService (vs/workbench/services/files/node/         *)
(* remoteFileService.ts): the provider registry, the stat resolution       *)
(* engine, the read and write pipelines and the reference-counted watch    *)
(* manager.  Every specification below shares the variables; a             *)
(* specification leaves the parts it does not exercise in their initial    *)
(* state.                                                                  *)
(***************************************************************************)
EXTENDS Naturals, Integers, Sequences, FiniteSets, TLC

VARIABLES
    _provider,      \* RemoteFileService._provider: scheme -> provider
    handles,        \* the registration handles registerProvider has returned
    _activeWatches, \* RemoteFileService._activeWatches: key -> { unwatch, count }
    subs,           \* the promises stored in the entries' unwatch fields
    lastCall,       \* the last call made on the service's API, and its outcome
    fs,             \* the provider's backing tree: path -> node type
    procs,          \* the write / mkdirp operations in flight
    rs,             \* the resolve operation in flight
    rd,             \* the read operation in flight
    ws              \* WorkspaceWatchLogic: its _watches and the workspace it follows

regVars   == <<_provider, handles>>
watchVars == <<_activeWatches, subs>>
vars == <<_provider, handles, _activeWatches, subs, lastCall, fs, procs, rs, rd, ws>>

(***************************************************************************)
(* Bounds of the model.                                                    *)
(***************************************************************************)
MaxSubs  == 3   \* provider resolutions started by watchFileChanges
MaxCount == 3   \* the largest refcount a watch entry is driven to
MaxDepth == 3   \* the deepest path of the provider's tree
MaxTargets == 2 \* the most must-resolve URIs given to one resolve
MaxMtime == 3   \* the latest modification time a file is driven to
MaxChunks == 3  \* the most chunks a decoded stream delivers
MaxSize == 2    \* the largest size a provider reports in a stat
MaxLoads == 3   \* the most load and reload calls on a WorkspaceConfiguration

(***************************************************************************)
(* Schemes, providers and resources.                                       *)
(***************************************************************************)
LocalScheme == "file"
Schemes     == {"foo", "bar"}
Providers   == {"A", "B"}
NoProvider  == "undefined"
NoEntry     == [count |-> 0, unwatch |-> 0]

\* FileSystemProviderCapabilities.Readonly is set on provider B only.
capabilities(p) == IF p = "B" THEN {"Readonly"} ELSE {}

\* The resources the watch manager is driven with: an absolute and a relative
\* one of a provider scheme, and one of the local scheme.
WatchResources ==
    { [scheme |-> "foo", absolute |-> TRUE],
      [scheme |-> "foo", absolute |-> FALSE],
      [scheme |-> LocalScheme, absolute |-> TRUE] }

isAbsolutePath(resource) == resource.absolute

NoCall == [op |-> "none", arg |-> <<>>, result |-> "none", prev |-> NoEntry,
           prevProvider |-> NoProvider]

NoResource == [scheme |-> "", absolute |-> FALSE]
FreeSub == [state |-> "free", resource |-> NoResource, provider |-> NoProvider,
            thens |-> 0, disposed |-> 0]

(***************************************************************************)
(* Initial states of the parts.                                            *)
(***************************************************************************)
RegInit   == /\ _provider = [s \in Schemes |-> NoProvider]
             /\ handles = {}
\* NoPolicy: the workspace policy is not exercised.
NoPolicy  == <<>>
WatchInit == /\ _activeWatches = [r \in WatchResources |-> NoEntry]
             /\ subs = [i \in 1..MaxSubs |-> FreeSub]
             /\ ws = NoPolicy

(***************************************************************************)
(* Provider registry.                                                      *)
(***************************************************************************)
registerProvider_Overwrite(scheme, provider) ==
    /\ _provider' = [_provider EXCEPT ![scheme] = provider]
    /\ handles' = handles \cup {[scheme |-> scheme, provider |-> provider]}
    /\ lastCall' = [op |-> "registerProvider", arg |-> <<scheme, provider>>,
                    result |-> "ok", prev |-> NoEntry,
                    prevProvider |-> _provider[scheme]]

registerProvider(scheme, provider) ==
    IF _provider[scheme] # NoProvider
    THEN /\ lastCall' = [op |-> "registerProvider", arg |-> <<scheme, provider>>,
                         result |-> "threw", prev |-> NoEntry,
                         prevProvider |-> _provider[scheme]]
         /\ UNCHANGED regVars
    ELSE /\ _provider' = [_provider EXCEPT ![scheme] = provider]
         /\ handles' = handles \cup {[scheme |-> scheme, provider |-> provider]}
         /\ lastCall' = [op |-> "registerProvider", arg |-> <<scheme, provider>>,
                         result |-> "ok", prev |-> NoEntry,
                         prevProvider |-> NoProvider]

\* The dispose() of the handle registerProvider returned.
disposeRegistration(h) ==
    /\ _provider' = [_provider EXCEPT ![h.scheme] = NoProvider]
    /\ UNCHANGED handles
    /\ lastCall' = [op |-> "disposeRegistration", arg |-> <<h.scheme, h.provider>>,
                    result |-> "ok", prev |-> NoEntry,
                    prevProvider |-> _provider[h.scheme]]

(***************************************************************************)
(* Provider resolution: _withProvider checks the path synchronously,       *)
(* triggers activateProvider(scheme), and looks the provider up once the   *)
(* activation has completed.                                               *)
(***************************************************************************)
_withProvider_lookup(scheme) == _provider[scheme]

(***************************************************************************)
(* Watch manager.                                                          *)
(***************************************************************************)
FirstFree == CHOOSE i \in 1..MaxSubs :
                 subs[i].state = "free" /\ \A j \in 1..(i-1) : subs[j].state # "free"

watchFileChanges_AlwaysSubscribe(resource) ==
    LET entry == _activeWatches[resource] IN
    /\ resource.scheme # LocalScheme
    /\ isAbsolutePath(resource)
    /\ entry.count < MaxCount
    /\ \E i \in 1..MaxSubs : subs[i].state = "free"
    /\ subs' = [subs EXCEPT ![FirstFree].state = "activating",
                          ![FirstFree].resource = resource]
    /\ _activeWatches' = [_activeWatches EXCEPT
                             ![resource] = [count |-> entry.count + 1,
                                            unwatch |-> FirstFree]]
    /\ lastCall' = [op |-> "watchFileChanges", arg |-> <<resource>>,
                    result |-> "ok", prev |-> entry,
                    prevProvider |-> NoProvider]

watchFileChanges_NoLocalTest(resource) ==
    LET entry == _activeWatches[resource] IN
    IF entry # NoEntry
    THEN /\ entry.count < MaxCount
         /\ _activeWatches' = [_activeWatches EXCEPT ![resource].count = entry.count + 1]
         /\ lastCall' = [op |-> "watchFileChanges", arg |-> <<resource>>,
                         result |-> "ok", prev |-> entry,
                         prevProvider |-> NoProvider]
         /\ UNCHANGED subs
    ELSE IF ~isAbsolutePath(resource)
    THEN \* _withProvider throws before the entry is stored
         /\ lastCall' = [op |-> "watchFileChanges", arg |-> <<resource>>,
                         result |-> "threw", prev |-> NoEntry,
                         prevProvider |-> NoProvider]
         /\ UNCHANGED watchVars
    ELSE /\ \E i \in 1..MaxSubs : subs[i].state = "free"
         /\ subs' = [subs EXCEPT ![FirstFree].state = "activating",
                               ![FirstFree].resource = resource]
         /\ _activeWatches' = [_activeWatches EXCEPT
                                  ![resource] = [count |-> 1, unwatch |-> FirstFree]]
         /\ lastCall' = [op |-> "watchFileChanges", arg |-> <<resource>>,
                         result |-> "ok", prev |-> NoEntry,
                         prevProvider |-> NoProvider]

watchFileChanges(resource) ==
    LET entry == _activeWatches[resource] IN
    IF resource.scheme = LocalScheme
    THEN /\ lastCall' = [op |-> "watchFileChanges", arg |-> <<resource>>,
                         result |-> "local", prev |-> NoEntry,
                         prevProvider |-> NoProvider]
         /\ UNCHANGED watchVars
    ELSE IF entry # NoEntry
    THEN /\ entry.count < MaxCount
         /\ _activeWatches' = [_activeWatches EXCEPT ![resource].count = entry.count + 1]
         /\ lastCall' = [op |-> "watchFileChanges", arg |-> <<resource>>,
                         result |-> "ok", prev |-> entry,
                         prevProvider |-> NoProvider]
         /\ UNCHANGED subs
    ELSE IF ~isAbsolutePath(resource)
    THEN \* _withProvider throws before the entry is stored
         /\ lastCall' = [op |-> "watchFileChanges", arg |-> <<resource>>,
                         result |-> "threw", prev |-> NoEntry,
                         prevProvider |-> NoProvider]
         /\ UNCHANGED watchVars
    ELSE /\ \E i \in 1..MaxSubs : subs[i].state = "free"
         /\ subs' = [subs EXCEPT ![FirstFree].state = "activating",
                               ![FirstFree].resource = resource]
         /\ _activeWatches' = [_activeWatches EXCEPT
                                  ![resource] = [count |-> 1, unwatch |-> FirstFree]]
         /\ lastCall' = [op |-> "watchFileChanges", arg |-> <<resource>>,
                         result |-> "ok", prev |-> NoEntry,
                         prevProvider |-> NoProvider]

\* The continuation of lines 450-454: runs when activateProvider has settled.
WatchProviderResolved(i, activated, watchOk) ==
    LET provider == _withProvider_lookup(subs[i].resource.scheme) IN
    /\ subs[i].state = "activating"
    /\ subs' = [subs EXCEPT ![i] =
                  IF ~activated \/ provider = NoProvider
                  THEN [@ EXCEPT !.state = "noop"]
                  ELSE IF watchOk
                  THEN [@ EXCEPT !.state = "watching", !.provider = provider]
                  ELSE [@ EXCEPT !.state = "rejected", !.provider = provider]]
    /\ UNCHANGED <<_activeWatches, lastCall>>

unwatchFileChanges_EveryCall(resource) ==
    LET entry == _activeWatches[resource] IN
    /\ resource.scheme # LocalScheme
    /\ entry # NoEntry
    /\ subs' = [subs EXCEPT ![entry.unwatch].thens = @ + 1]
    /\ _activeWatches' = [_activeWatches EXCEPT ![resource] = NoEntry]
    /\ lastCall' = [op |-> "unwatchFileChanges", arg |-> <<resource>>,
                    result |-> "ok", prev |-> entry,
                         prevProvider |-> NoProvider]

unwatchFileChanges_NoDefer(resource) ==
    LET entry == _activeWatches[resource] IN
    /\ resource.scheme # LocalScheme
    /\ entry # NoEntry
    /\ IF entry.count - 1 = 0
       THEN /\ subs' = [subs EXCEPT ![entry.unwatch].thens =
                          IF subs[entry.unwatch].state = "activating" THEN @ ELSE @ + 1]
            /\ _activeWatches' = [_activeWatches EXCEPT ![resource] = NoEntry]
       ELSE /\ _activeWatches' = [_activeWatches EXCEPT ![resource].count = entry.count - 1]
            /\ UNCHANGED subs
    /\ lastCall' = [op |-> "unwatchFileChanges", arg |-> <<resource>>,
                    result |-> "ok", prev |-> entry,
                    prevProvider |-> NoProvider]

unwatchFileChanges_KeepAtZero(resource) ==
    LET entry == _activeWatches[resource] IN
    /\ resource.scheme # LocalScheme
    /\ entry # NoEntry /\ entry.count > 0
    /\ _activeWatches' = [_activeWatches EXCEPT ![resource].count = entry.count - 1]
    /\ UNCHANGED subs
    /\ lastCall' = [op |-> "unwatchFileChanges", arg |-> <<resource>>,
                    result |-> "ok", prev |-> entry,
                    prevProvider |-> NoProvider]

unwatchFileChanges(resource) ==
    LET entry == _activeWatches[resource] IN
    IF resource.scheme = LocalScheme
    THEN /\ lastCall' = [op |-> "unwatchFileChanges", arg |-> <<resource>>,
                         result |-> "local", prev |-> NoEntry,
                         prevProvider |-> NoProvider]
         /\ UNCHANGED watchVars
    ELSE IF entry # NoEntry /\ entry.count - 1 = 0
    THEN /\ subs' = [subs EXCEPT ![entry.unwatch].thens = @ + 1]
         /\ _activeWatches' = [_activeWatches EXCEPT ![resource] = NoEntry]
         /\ lastCall' = [op |-> "unwatchFileChanges", arg |-> <<resource>>,
                         result |-> "ok", prev |-> entry,
                         prevProvider |-> NoProvider]
    ELSE IF entry # NoEntry
    THEN /\ _activeWatches' = [_activeWatches EXCEPT ![resource].count = entry.count - 1]
         /\ lastCall' = [op |-> "unwatchFileChanges", arg |-> <<resource>>,
                         result |-> "ok", prev |-> entry,
                         prevProvider |-> NoProvider]
         /\ UNCHANGED subs
    ELSE /\ lastCall' = [op |-> "unwatchFileChanges", arg |-> <<resource>>,
                         result |-> "ok", prev |-> NoEntry,
                         prevProvider |-> NoProvider]
         /\ UNCHANGED watchVars

\* The callback of entry.unwatch.then(dispose): runs once the promise has
\* resolved; a rejected promise never runs it.
RunDispose(i) ==
    /\ subs[i].state \in {"watching", "noop"}
    /\ subs[i].thens > 0
    /\ subs' = [subs EXCEPT ![i].thens = @ - 1, ![i].disposed = @ + 1]
    /\ UNCHANGED <<_activeWatches, lastCall>>

(***************************************************************************)
(* Spec: the provider registry and the watch manager.                      *)
(***************************************************************************)
OtherIdle == /\ fs = <<>> /\ procs = <<>> /\ rs = <<>> /\ rd = <<>>

Init == /\ RegInit /\ WatchInit /\ lastCall = NoCall /\ OtherIdle

\* The schemes of the watched resources that are served by providers.
WatchedSchemes == {r.scheme : r \in WatchResources} \ {LocalScheme}

Register == \E s \in WatchedSchemes, p \in Providers :
                registerProvider(s, p) /\ UNCHANGED <<watchVars, fs, procs, rs, rd, ws>>
Unregister == \E h \in handles :
                disposeRegistration(h) /\ UNCHANGED <<watchVars, fs, procs, rs, rd, ws>>
Watch == \E r \in WatchResources :
                watchFileChanges(r) /\ UNCHANGED <<regVars, fs, procs, rs, rd, ws>>
Unwatch == \E r \in WatchResources :
                unwatchFileChanges(r) /\ UNCHANGED <<regVars, fs, procs, rs, rd, ws>>
WatchResolved == \E i \in 1..MaxSubs, activated \in BOOLEAN, watchOk \in BOOLEAN :
                /\ WatchProviderResolved(i, activated, watchOk)
                /\ UNCHANGED <<regVars, fs, procs, rs, rd, ws>>
Disposed == \E i \in 1..MaxSubs :
                RunDispose(i) /\ UNCHANGED <<regVars, fs, procs, rs, rd, ws>>

Next == Register \/ Unregister \/ Watch \/ Unwatch \/ WatchResolved \/ Disposed

Spec == Init /\ [][Next]_vars

(***************************************************************************)
(* SpecRegistry: the provider registry alone, over every scheme.           *)
(***************************************************************************)
RegisterAny == \E s \in Schemes, p \in Providers :
                registerProvider(s, p) /\ UNCHANGED <<watchVars, fs, procs, rs, rd, ws>>

NextRegistry == RegisterAny \/ Unregister

SpecRegistry == Init /\ [][NextRegistry]_vars

(***************************************************************************)
(* Properties of the watch manager (checked under Spec).                   *)
(***************************************************************************)

\* C1: watch refcounting.  While an entry exists its refcount is at least 1
\* and its subscription has neither been disposed nor been scheduled for
\* disposal; a watch on an existing entry only raises the refcount and keeps
\* the entry's subscription, a watch without an entry starts one provider
\* resolution; an unwatch at refcount 2 leaves the resource watched with
\* refcount 1; an unwatch at refcount 1 removes the entry and schedules the
\* one disposal of its subscription; no subscription is disposed twice.
C1_WatchRefcount ==
    /\ \A r \in WatchResources :
         LET e == _activeWatches[r] IN
         e # NoEntry =>
            /\ e.count >= 1
            /\ subs[e.unwatch].state # "free"
            /\ subs[e.unwatch].thens = 0
            /\ subs[e.unwatch].disposed = 0
    /\ \A i \in 1..MaxSubs : subs[i].thens + subs[i].disposed <= 1
    /\ (lastCall.op = "watchFileChanges" /\ lastCall.result = "ok") =>
         LET e == _activeWatches[lastCall.arg[1]] IN
         IF lastCall.prev = NoEntry
         THEN e.count = 1
         ELSE e.count = lastCall.prev.count + 1 /\ e.unwatch = lastCall.prev.unwatch
    /\ (lastCall.op = "unwatchFileChanges" /\ lastCall.prev.count >= 2) =>
         LET e == _activeWatches[lastCall.arg[1]] IN
         /\ e.count = lastCall.prev.count - 1
         /\ e.unwatch = lastCall.prev.unwatch
    /\ (lastCall.op = "unwatchFileChanges" /\ lastCall.prev.count = 1) =>
         /\ _activeWatches[lastCall.arg[1]] = NoEntry
         /\ subs[lastCall.prev.unwatch].thens + subs[lastCall.prev.unwatch].disposed = 1

\* C1 witness: the last unwatch took the refcount from 1 to 0 and the
\* subscription provider.watch had returned has been disposed, once.
C1_Witness ==
    /\ lastCall.op = "unwatchFileChanges"
    /\ lastCall.prev.count = 1
    /\ subs[lastCall.prev.unwatch].state = "watching"
    /\ subs[lastCall.prev.unwatch].disposed = 1

(***************************************************************************)
(* Properties of the provider registry (checked under SpecRegistry).       *)
(***************************************************************************)

\* C2: single provider per scheme.  registerProvider on a scheme that has a
\* provider throws and leaves that provider registered; on a scheme without
\* one (also after the earlier registration was disposed) it succeeds and the
\* given provider is the one registered.
C2_SingleProviderPerScheme ==
    lastCall.op = "registerProvider" =>
        IF lastCall.prevProvider # NoProvider
        THEN /\ lastCall.result = "threw"
             /\ _provider[lastCall.arg[1]] = lastCall.prevProvider
        ELSE /\ lastCall.result = "ok"
             /\ _provider[lastCall.arg[1]] = lastCall.arg[2]

\* C2 witness: a registration succeeded on a scheme for which a handle of
\* another provider had been handed out earlier (and disposed since).
C2_Witness ==
    /\ lastCall.op = "registerProvider"
    /\ lastCall.result = "ok"
    /\ \E h \in handles : h.scheme = lastCall.arg[1] /\ h.provider # lastCall.arg[2]

(***************************************************************************)
(* Paths and the provider's tree.  A path is the sequence of its segments; *)
(* '/' is the empty sequence.  The tree maps each existing path to its     *)
(* stat; '/' always exists and is a directory.                             *)
(***************************************************************************)
Names == {"a", "b"}
Root  == <<>>

RECURSIVE PathsOfLen(_)
PathsOfLen(n) == IF n = 0 THEN {Root}
                 ELSE {Append(q, x) : q \in PathsOfLen(n - 1), x \in Names}
Paths == UNION {PathsOfLen(n) : n \in 0..MaxDepth}

dirname(path)        == IF path = Root THEN Root ELSE SubSeq(path, 1, Len(path) - 1)
basename(path)       == IF path = Root THEN "" ELSE path[Len(path)]
joinPath(path, name) == Append(path, name)

\* FileType is a bitmask; a type is the set of its bits.
FileType == [File |-> {"File"}, Directory |-> {"Directory"},
             SymbolicLink |-> {"SymbolicLink"}]

IStat(type, mtime, size) == [type |-> type, mtime |-> mtime, size |-> size]

Exists(tree, path) == path = Root \/ path \in DOMAIN tree
IsDir(tree, path)  == path = Root \/
                      (path \in DOMAIN tree /\ tree[path].type \cap FileType.Directory # {})

\* provider.stat: the stat of an existing path, a rejection otherwise.
provider_stat(tree, path) ==
    IF path = Root THEN [ok |-> TRUE, stat |-> IStat(FileType.Directory, 0, 0)]
    ELSE IF path \in DOMAIN tree THEN [ok |-> TRUE, stat |-> tree[path]]
    ELSE [ok |-> FALSE, stat |-> IStat({}, 0, 0)]

\* provider.mkdir: rejects when the path exists or its parent is no directory.
provider_mkdir_ok(tree, path) == ~Exists(tree, path) /\ IsDir(tree, dirname(path))
provider_mkdir(tree, path)    == (path :> IStat(FileType.Directory, 0, 0)) @@ tree

\* The tree holding the directories on the way to `path`, whose last level is
\* a file when leafIsFile.
Chain(path, leafIsFile) ==
    [q \in {SubSeq(path, 1, n) : n \in 1..Len(path)} |->
        IF q = path /\ leafIsFile THEN IStat(FileType.File, 1, 1)
        ELSE IStat(FileType.Directory, 0, 0)]
ChainTrees == {Chain(q, f) : q \in Paths, f \in BOOLEAN}

(***************************************************************************)
(* Operations in flight.  A process runs createFile, updateContent or, on  *)
(* its own, the _mkdirp routine (twice in sequence on one directory).      *)
(***************************************************************************)
NoError == [kind |-> "none", typed |-> FALSE]

URI(scheme, absolute, path) == [scheme |-> scheme, absolute |-> absolute, path |-> path]

\* etag(mtime, size) of vs/platform/files/common/files.
etag(mtime, size) == <<mtime, size>>

FileStatOf_EtagOfType(provider, resource, stat) ==
    [resource |-> resource,
     name |-> basename(resource),
     isDirectory |-> stat.type \cap FileType.Directory # {},
     isSymbolicLink |-> stat.type \cap FileType.SymbolicLink # {},
     isReadonly |-> "Readonly" \in capabilities(provider),
     mtime |-> stat.mtime,
     size |-> stat.size,
     etag |-> <<etag(stat.mtime, stat.size), stat.type>>]

\* The IFileStat literal of toIFileStat (lines 41-50); children are kept apart.
FileStatOf(provider, resource, stat) ==
    [resource |-> resource,
     name |-> basename(resource),
     isDirectory |-> stat.type \cap FileType.Directory # {},
     isSymbolicLink |-> stat.type \cap FileType.SymbolicLink # {},
     isReadonly |-> "Readonly" \in capabilities(provider),
     mtime |-> stat.mtime,
     size |-> stat.size,
     etag |-> etag(stat.mtime, stat.size)]

NoFileStat == FileStatOf(NoProvider, Root, IStat({}, 0, 0))

NewProc(op, uri, overwrite) ==
    [op |-> op, scheme |-> uri.scheme, absolute |-> uri.absolute, resource |-> uri.path,
     overwrite |-> overwrite, pc |-> "idle",
     provider |-> NoProvider, directory |-> Root, basenames |-> <<>>, i |-> 0,
     calls |-> <<>>, run |-> 1, outcomes |-> <<>>, trees |-> <<>>,
     error |-> NoError, result |-> NoFileStat, events |-> 0]

\* toFileOperationResult of vs/platform/files/common/files: a
\* FileOperationError keeps its result, any other error is a generic one.
toFileOperationResult(err) == IF err.typed THEN err.kind ELSE "FILE_OTHER_ERROR"

\* The rejection of a write: createFile wraps it into a FileOperationError
\* (lines 381-385), updateContent passes it on as it is.
Rejected(proc, err) ==
    [proc EXCEPT !.pc = "failed",
                 !.error = IF proc.op = "createFile"
                           THEN [kind |-> toFileOperationResult(err), typed |-> TRUE]
                           ELSE err]

Call(op, path, ok, isDirectory, run) ==
    [op |-> op, path |-> path, ok |-> ok, isDirectory |-> isDirectory, run |-> run]

MkdirpSettled_IgnoreFailure(proc, tree, ok, kind) ==
    IF proc.op = "_mkdirp"
    THEN LET q == [proc EXCEPT !.outcomes = Append(@, ok), !.trees = Append(@, tree)] IN
         IF proc.run = 1
         THEN [q EXCEPT !.run = 2, !.pc = "walk", !.directory = proc.resource,
                        !.basenames = <<>>, !.i = 0]
         ELSE [q EXCEPT !.pc = "done"]
    ELSE [proc EXCEPT !.pc = "write"]

\* What follows the end of _mkdirp (ok, or rejected with `kind`).
\* Run alone, the routine is started a second time on the same directory.
MkdirpSettled(proc, tree, ok, kind) ==
    IF proc.op = "_mkdirp"
    THEN LET q == [proc EXCEPT !.outcomes = Append(@, ok), !.trees = Append(@, tree)] IN
         IF proc.run = 1
         THEN [q EXCEPT !.run = 2, !.pc = "walk", !.directory = proc.resource,
                        !.basenames = <<>>, !.i = 0]
         ELSE [q EXCEPT !.pc = "done"]
    ELSE IF ok THEN [proc EXCEPT !.pc = "write"]
    ELSE Rejected(proc, [kind |-> kind, typed |-> FALSE])

\* One pass of the while loop of _mkdirp (lines 340-352).
MkdirpWalk_NoBreak(w) ==
    LET proc == procs[w]
        ans  == provider_stat(fs, proc.directory)
        isDir == ans.ok /\ ans.stat.type \cap FileType.Directory # {}
    IN
    /\ proc.pc = "walk"
    /\ IF proc.directory = Root
       THEN procs' = [procs EXCEPT ![w].pc = "create", ![w].i = Len(proc.basenames)]
       ELSE procs' = [procs EXCEPT
                 ![w].calls = Append(@, Call("stat", proc.directory, ans.ok, isDir, proc.run)),
                 ![w].basenames = Append(@, basename(proc.directory)),
                 ![w].directory = dirname(proc.directory)]
    /\ UNCHANGED fs

MkdirpWalk_StatRoot(w) ==
    LET proc == procs[w]
        ans  == provider_stat(fs, proc.directory)
        isDir == ans.ok /\ ans.stat.type \cap FileType.Directory # {}
    IN
    /\ proc.pc = "walk"
    /\ IF isDir
       THEN procs' = [procs EXCEPT
                 ![w].calls = Append(@, Call("stat", proc.directory, ans.ok, isDir, proc.run)),
                 ![w].pc = "create", ![w].i = Len(proc.basenames)]
       ELSE procs' = [procs EXCEPT
                 ![w].calls = Append(@, Call("stat", proc.directory, ans.ok, isDir, proc.run)),
                 ![w].basenames = Append(@, basename(proc.directory)),
                 ![w].directory = dirname(proc.directory)]
    /\ UNCHANGED fs

MkdirpWalk(w) ==
    LET proc == procs[w]
        ans  == provider_stat(fs, proc.directory)
        isDir == ans.ok /\ ans.stat.type \cap FileType.Directory # {}
    IN
    /\ proc.pc = "walk"
    /\ IF proc.directory = Root
       THEN procs' = [procs EXCEPT ![w].pc = "create", ![w].i = Len(proc.basenames)]
       ELSE IF isDir
       THEN \* we have hit a directory -> good
            procs' = [procs EXCEPT
                 ![w].calls = Append(@, Call("stat", proc.directory, ans.ok, isDir, proc.run)),
                 ![w].pc = "create", ![w].i = Len(proc.basenames)]
       ELSE \* the stat rejected, or the 'is not a directory' error was thrown:
            \* both land in the catch block
            procs' = [procs EXCEPT
                 ![w].calls = Append(@, Call("stat", proc.directory, ans.ok, isDir, proc.run)),
                 ![w].basenames = Append(@, basename(proc.directory)),
                 ![w].directory = dirname(proc.directory)]
    /\ UNCHANGED fs

\* One pass of the for loop of _mkdirp (lines 353-356), or its end.
MkdirpCreate(w) ==
    LET proc == procs[w]
        dir  == joinPath(proc.directory, proc.basenames[proc.i])
    IN
    /\ proc.pc = "create"
    /\ IF proc.i = 0
       THEN /\ procs' = [procs EXCEPT ![w] = MkdirpSettled(proc, fs, TRUE, "none")]
            /\ UNCHANGED fs
       ELSE IF provider_mkdir_ok(fs, dir)
       THEN /\ fs' = provider_mkdir(fs, dir)
            /\ procs' = [procs EXCEPT
                 ![w].calls = Append(@, Call("mkdir", dir, TRUE, TRUE, proc.run)),
                 ![w].directory = dir, ![w].i = proc.i - 1]
       ELSE /\ procs' = [procs EXCEPT ![w] =
                 MkdirpSettled([proc EXCEPT
                     !.calls = Append(@, Call("mkdir", dir, FALSE, IsDir(fs, dir), proc.run)),
                     !.directory = dir], fs, FALSE,
                     IF Exists(fs, dir) THEN "FileExists" ELSE "FileNotFound")]
            /\ UNCHANGED fs

(***************************************************************************)
(* SpecMkdirp: _mkdirp(provider, directory) run twice in sequence by one   *)
(* caller, on every directory and every chain tree within the bounds.      *)
(***************************************************************************)
InitMkdirp ==
    /\ RegInit /\ WatchInit /\ lastCall = NoCall /\ rs = <<>> /\ rd = <<>>
    /\ fs \in ChainTrees
    /\ \E dir \in Paths \ {Root} :
         procs = <<[NewProc("_mkdirp", URI("foo", TRUE, dir), FALSE) EXCEPT
                       !.pc = "walk", !.directory = dir, !.trees = <<fs>>]>>

Walk   == \E w \in DOMAIN procs :
            MkdirpWalk(w) /\ UNCHANGED <<regVars, watchVars, lastCall, rs, rd, ws>>
Create == \E w \in DOMAIN procs :
            MkdirpCreate(w) /\ UNCHANGED <<regVars, watchVars, lastCall, rs, rd, ws>>

NextMkdirp == Walk \/ Create

SpecMkdirp == InitMkdirp /\ [][NextMkdirp]_vars

(***************************************************************************)
(* Properties of the ensure-parent-directories routine.                    *)
(***************************************************************************)
Reverse(seq) == [j \in 1..Len(seq) |-> seq[Len(seq) + 1 - j]]
PathsOf(seq) == [j \in 1..Len(seq) |-> seq[j].path]

IsStatOf(c, r)  == c.op = "stat" /\ c.run = r
IsMkdirOf(c, r) == c.op = "mkdir" /\ c.run = r
\* The levels the walk of run r found missing (child to root), the levels it
\* found to exist, and the mkdir calls the run issued (in order).
FoundMissing(proc, r) ==
    PathsOf(SelectSeq(proc.calls, LAMBDA c : IsStatOf(c, r) /\ ~c.ok))
FoundExisting(proc, r) ==
    {proc.calls[j].path : j \in {k \in 1..Len(proc.calls) :
                                    IsStatOf(proc.calls[k], r) /\ proc.calls[k].ok}}
MkdirsOf(proc, r) ==
    PathsOf(SelectSeq(proc.calls, LAMBDA c : IsMkdirOf(c, r)))
IsPrefixSeq(s1, s2) == Len(s1) <= Len(s2) /\ SubSeq(s2, 1, Len(s1)) = s1

\* C7: the walk stops at the first level that exists and is a directory, and
\* a level that exists but is not a directory makes the routine fail there:
\* no call (no stat further up, no mkdir) follows that stat in the run.
C7_WalkFailsOnNonDirectory ==
    \A w \in DOMAIN procs :
      LET calls == procs[w].calls IN
      \A j \in 1..Len(calls) :
        calls[j].op = "stat" /\ calls[j].ok =>
          IF calls[j].isDirectory
          THEN \A k \in (j+1)..Len(calls) :
                 calls[k].run = calls[j].run => calls[k].op # "stat"
          ELSE \A k \in (j+1)..Len(calls) : calls[k].run # calls[j].run

\* C8: the mkdir calls of a run are the levels its walk found missing, taken
\* root to child, one call per level (a prefix of them while the run is
\* under way), and no mkdir is issued for a level the walk found to exist.
C8_MkdirExactlyMissingLevels ==
    \A w \in DOMAIN procs : \A r \in 1..2 :
      /\ IsPrefixSeq(MkdirsOf(procs[w], r), Reverse(FoundMissing(procs[w], r)))
      /\ \A j \in 1..Len(MkdirsOf(procs[w], r)) :
           MkdirsOf(procs[w], r)[j] \notin FoundExisting(procs[w], r)

\* The nested directory does not exist at the start and can be created: the
\* levels above it that exist are directories.
NestedMissing(tree, dir) ==
    /\ Len(dir) >= 2
    /\ ~Exists(tree, dir)
    /\ \A n \in 1..(Len(dir) - 1) :
         Exists(tree, SubSeq(dir, 1, n)) => IsDir(tree, SubSeq(dir, 1, n))

\* C10: mkdirp idempotence.  After two runs in sequence on a nested directory
\* that did not exist, both runs have succeeded, the second has issued no
\* mkdir and left the tree of the first run unchanged, and every level of
\* the directory is a directory.
C10_MkdirpIdempotent ==
    \A w \in DOMAIN procs :
      LET proc == procs[w] IN
      (proc.op = "_mkdirp" /\ proc.pc = "done" /\ NestedMissing(proc.trees[1], proc.resource)) =>
        /\ proc.outcomes = <<TRUE, TRUE>>
        /\ MkdirsOf(proc, 2) = <<>>
        /\ proc.trees[3] = proc.trees[2]
        /\ fs = proc.trees[2]
        /\ \A n \in 1..Len(proc.resource) : IsDir(fs, SubSeq(proc.resource, 1, n))

\* C10 witness: both runs are over on a directory of which at least two
\* levels were missing; the first run created them.
C10_Witness ==
    \E w \in DOMAIN procs :
      /\ procs[w].op = "_mkdirp" /\ procs[w].pc = "done"
      /\ NestedMissing(procs[w].trees[1], procs[w].resource)
      /\ Len(MkdirsOf(procs[w], 1)) >= 2
      /\ procs[w].outcomes = <<TRUE, TRUE>>

(***************************************************************************)
(* Write pipeline: createFile and updateContent.                           *)
(***************************************************************************)
\* TRUE when _throwIfFileSystemIsReadonly throws for the provider.
_throwIfFileSystemIsReadonly_Never(provider) == FALSE

_throwIfFileSystemIsReadonly(provider) == "Readonly" \in capabilities(provider)

\* The synchronous part of createFile / updateContent: the scheme test, and
\* the path test and the activateProvider call of _withProvider.
WriteStarted(proc) ==
    IF proc.scheme = LocalScheme THEN [proc EXCEPT !.pc = "local"]
    ELSE IF ~isAbsolutePath(proc)
    THEN [proc EXCEPT !.pc = "failed",
                      !.error = [kind |-> "FILE_INVALID_PATH", typed |-> TRUE]]
    ELSE [proc EXCEPT !.pc = "activating"]

createFile(w, uri, overwrite) ==
    /\ procs[w].pc = "idle"
    /\ procs' = [procs EXCEPT ![w] = WriteStarted(NewProc("createFile", uri, overwrite))]
    /\ UNCHANGED fs

updateContent(w, uri) ==
    /\ procs[w].pc = "idle"
    /\ procs' = [procs EXCEPT ![w] = WriteStarted(NewProc("updateContent", uri, TRUE))]
    /\ UNCHANGED fs

\* activateProvider has settled: the provider lookup of _withProvider and
\* .then(RemoteFileService._throwIfFileSystemIsReadonly), up to the call of
\* _mkdirp(provider, resources.dirname(resource)).
WriteActivated(w, activated) ==
    LET proc == procs[w]
        provider == _withProvider_lookup(proc.scheme)
    IN
    /\ proc.pc = "activating"
    /\ procs' = [procs EXCEPT ![w] =
         IF ~activated THEN Rejected(proc, [kind |-> "EACTIVATE", typed |-> FALSE])
         ELSE IF provider = NoProvider
         THEN Rejected(proc, [kind |-> "ENOPRO", typed |-> FALSE])
         ELSE IF _throwIfFileSystemIsReadonly(provider)
         THEN Rejected([proc EXCEPT !.provider = provider],
                       [kind |-> "FILE_PERMISSION_DENIED", typed |-> TRUE])
         ELSE [proc EXCEPT !.provider = provider, !.pc = "walk",
                           !.directory = dirname(proc.resource), !.basenames = <<>>]]
    /\ UNCHANGED fs

\* The provider's write sink, opened with { create, overwrite }.
provider_write_ok(tree, path, opts) ==
    /\ path # Root
    /\ IsDir(tree, dirname(path))
    /\ ~IsDir(tree, path)
    /\ IF Exists(tree, path) THEN opts.overwrite ELSE opts.create
provider_write(tree, path) ==
    (path :> IStat(FileType.File,
                   IF path \in DOMAIN tree THEN tree[path].mtime + 1 ELSE 1, 1)) @@ tree

_writeFile_AlwaysOverwrite(w, outcome) ==
    LET proc == procs[w]
        opts == [create |-> TRUE,
                 overwrite |-> TRUE]
    IN
    /\ proc.pc = "write"
    /\ outcome = "finish" => provider_write_ok(fs, proc.resource, opts)
    /\ IF outcome = "finish"
       THEN /\ fs' = provider_write(fs, proc.resource)
            /\ procs' = [procs EXCEPT
                 ![w].calls = Append(@, Call("write", proc.resource, TRUE, FALSE, proc.run)),
                 ![w].pc = "reresolve"]
       ELSE IF outcome = "error"
       THEN /\ procs' = [procs EXCEPT ![w] =
                 Rejected([proc EXCEPT !.calls =
                              Append(@, Call("write", proc.resource, FALSE, FALSE, proc.run))],
                          [kind |-> IF Exists(fs, proc.resource) /\ ~opts.overwrite
                                    THEN "FileExists" ELSE "Unknown",
                           typed |-> FALSE])]
            /\ UNCHANGED fs
       ELSE /\ procs' = [procs EXCEPT ![w].pc = "pending"]
            /\ UNCHANGED fs

\* _writeFile up to the settling of its promise: 'finish' of the sink
\* resolves it, 'error' of the sink rejects it, an error of the encoder does
\* neither.
_writeFile(w, outcome) ==
    LET proc == procs[w]
        opts == [create |-> TRUE,
                 overwrite |-> IF proc.op = "createFile" THEN proc.overwrite ELSE TRUE]
    IN
    /\ proc.pc = "write"
    /\ outcome = "finish" => provider_write_ok(fs, proc.resource, opts)
    /\ IF outcome = "finish"
       THEN /\ fs' = provider_write(fs, proc.resource)
            /\ procs' = [procs EXCEPT
                 ![w].calls = Append(@, Call("write", proc.resource, TRUE, FALSE, proc.run)),
                 ![w].pc = "reresolve"]
       ELSE IF outcome = "error"
       THEN /\ procs' = [procs EXCEPT ![w] =
                 Rejected([proc EXCEPT !.calls =
                              Append(@, Call("write", proc.resource, FALSE, FALSE, proc.run))],
                          [kind |-> IF Exists(fs, proc.resource) /\ ~opts.overwrite
                                    THEN "FileExists" ELSE "Unknown",
                           typed |-> FALSE])]
            /\ UNCHANGED fs
       ELSE /\ procs' = [procs EXCEPT ![w].pc = "pending"]
            /\ UNCHANGED fs

\* this.resolveFile(resource, { resolveMetadata: true }) of _writeFile, and
\* the handlers createFile chains after it (lines 378-381).
WriteResolved(w, activated) ==
    LET proc == procs[w]
        provider == _withProvider_lookup(proc.scheme)
        ans == provider_stat(fs, proc.resource)
    IN
    /\ proc.pc = "reresolve"
    /\ procs' = [procs EXCEPT ![w] =
         IF ~activated THEN Rejected(proc, [kind |-> "EACTIVATE", typed |-> FALSE])
         ELSE IF provider = NoProvider
         THEN Rejected(proc, [kind |-> "ENOPRO", typed |-> FALSE])
         ELSE IF ~ans.ok
         THEN Rejected([proc EXCEPT !.calls =
                           Append(@, Call("stat", proc.resource, FALSE, FALSE, proc.run))],
                       [kind |-> "FILE_NOT_FOUND", typed |-> TRUE])
         ELSE [proc EXCEPT
                 !.calls = Append(@, Call("stat", proc.resource, TRUE,
                                          IsDir(fs, proc.resource), proc.run)),
                 !.pc = "done",
                 !.result = FileStatOf(provider, proc.resource, ans.stat),
                 !.events = IF proc.op = "createFile" THEN @ + 1 ELSE @]]
    /\ UNCHANGED fs

(***************************************************************************)
(* SpecWrite: two callers, each running one createFile or updateContent,   *)
(* interleaved at their suspension points.                                 *)
(***************************************************************************)
Writers == {1, 2}

WriteTargets == {<<"a", "a">>, <<"a", "b", "a">>}
WriteURIs == {URI("foo", TRUE, t) : t \in WriteTargets}
                \cup {URI("foo", FALSE, <<"a">>), URI(LocalScheme, TRUE, <<"a">>)}
WriteTrees == {Chain(Root, FALSE), Chain(<<"a">>, TRUE), Chain(<<"a", "a">>, TRUE)}

InitWrite ==
    /\ WatchInit /\ lastCall = NoCall /\ rs = <<>> /\ rd = <<>>
    /\ \E p \in Providers \cup {NoProvider} :
         /\ _provider = [s \in Schemes |-> IF s = "foo" THEN p ELSE NoProvider]
         /\ handles = IF p = NoProvider THEN {} ELSE {[scheme |-> "foo", provider |-> p]}
    /\ fs \in WriteTrees
    /\ procs = [w \in Writers |-> NewProc("none", URI("", FALSE, Root), FALSE)]

CreateFile == \E w \in Writers, uri \in WriteURIs, overwrite \in BOOLEAN :
    createFile(w, uri, overwrite) /\ UNCHANGED <<regVars, watchVars, lastCall, rs, rd, ws>>
UpdateContent == \E w \in Writers, uri \in WriteURIs :
    updateContent(w, uri) /\ UNCHANGED <<regVars, watchVars, lastCall, rs, rd, ws>>
Activated == \E w \in Writers, activated \in BOOLEAN :
    WriteActivated(w, activated) /\ UNCHANGED <<regVars, watchVars, lastCall, rs, rd, ws>>
WriteFile == \E w \in Writers, outcome \in {"finish", "error", "encoderError"} :
    _writeFile(w, outcome) /\ UNCHANGED <<regVars, watchVars, lastCall, rs, rd, ws>>
Reresolved == \E w \in Writers, activated \in BOOLEAN :
    WriteResolved(w, activated) /\ UNCHANGED <<regVars, watchVars, lastCall, rs, rd, ws>>

NextWrite == CreateFile \/ UpdateContent \/ Activated \/ Walk \/ Create
                \/ WriteFile \/ Reresolved

SpecWrite == InitWrite /\ [][NextWrite]_vars

(***************************************************************************)
(* Properties of the write pipeline (checked under SpecWrite).             *)
(***************************************************************************)
IsWrite(proc) == proc.op \in {"createFile", "updateContent"}

\* C3: readonly enforcement.  A createFile or updateContent whose provider
\* has the Readonly capability has failed with FILE_PERMISSION_DENIED, as a
\* FileOperationError, and has issued no stat, mkdir or write call.
C3_ReadonlyEnforced ==
    \A w \in DOMAIN procs :
      (IsWrite(procs[w]) /\ procs[w].provider # NoProvider
         /\ "Readonly" \in capabilities(procs[w].provider)) =>
        /\ procs[w].pc = "failed"
        /\ procs[w].error = [kind |-> "FILE_PERMISSION_DENIED", typed |-> TRUE]
        /\ procs[w].calls = <<>>

\* C3 witness: a createFile and an updateContent have both been refused by
\* the readonly provider.
C3_Witness ==
    \E w1, w2 \in DOMAIN procs :
      /\ procs[w1].op = "createFile" /\ procs[w2].op = "updateContent"
      /\ \A w \in {w1, w2} :
           /\ "Readonly" \in capabilities(procs[w].provider)
           /\ procs[w].pc = "failed"
           /\ procs[w].error.kind = "FILE_PERMISSION_DENIED"

\* C9: a mkdir that the provider rejects because the directory has been
\* created in the meantime (by the other writer) is treated as success: no
\* write has failed on such a mkdir.
C9_MkdirRaceTolerated ==
    \A w \in DOMAIN procs :
      LET proc == procs[w] IN
      (IsWrite(proc) /\ proc.pc = "failed" /\ Len(proc.calls) > 0) =>
        LET last == proc.calls[Len(proc.calls)] IN
        ~(last.op = "mkdir" /\ ~last.ok /\ last.isDirectory)

(***************************************************************************)
(* Stat resolution engine: resolveFile, _doResolveFiles, toDeepIFileStat   *)
(* and toIFileStat.                                                        *)
(***************************************************************************)
IsPrefix(p1, p2)     == Len(p1) < Len(p2) /\ SubSeq(p2, 1, Len(p1)) = p1
IsPrefixOrEq(p1, p2) == Len(p1) <= Len(p2) /\ SubSeq(p2, 1, Len(p1)) = p1

\* TernarySearchTree.forPaths: the tree is the set of its keys, paths compared
\* segment by segment.  findSuperstr answers whether a stored key lies below
\* the given one, get whether the given one is stored.
trie_findSuperstr(trie, key) == \E k \in trie : IsPrefix(key, k)
trie_get(trie, key)          == key \in trie

\* The tree toDeepIFileStat fills (lines 75-80).
trie_of(root, to) == {root} \cup to

\* The predicate toDeepIFileStat hands to toIFileStat (lines 82-84).
recurse_Always(trie, candidate) == TRUE

recurse_NoGet(trie, candidate) == trie_findSuperstr(trie, candidate)

recurse(trie, candidate) ==
    trie_findSuperstr(trie, candidate) \/ trie_get(trie, candidate)

\* provider.readdir: the [name, type] tuples of the entries of a directory.
provider_readdir(tree, dir) ==
    {<<basename(q), tree[q].type>> : q \in {c \in DOMAIN tree : c # Root /\ dirname(c) = dir}}

TypeOnlyStat(type) == IStat(type, 0, 0)

NoResolve ==
    [pc |-> "idle", scheme |-> "", absolute |-> FALSE, root |-> Root, to |-> {},
     provider |-> NoProvider, pending |-> {}, readdirs |-> {},
     nodes |-> <<>>, children |-> <<>>, error |-> NoError,
     atCall |-> NoProvider,   \* the provider of the scheme when resolveFile was called
     stats |-> 0]             \* the provider.stat calls made so far

resolveFile_NoPathCheck(uri, to) ==
    /\ rs.pc = "idle"
    /\ rs' = LET r == [NoResolve EXCEPT !.scheme = uri.scheme, !.absolute = uri.absolute,
                                        !.root = uri.path, !.to = to,
                                        !.atCall = IF uri.scheme \in Schemes
                                                   THEN _provider[uri.scheme]
                                                   ELSE NoProvider] IN
             IF uri.scheme = LocalScheme THEN [r EXCEPT !.pc = "local"]
             ELSE [r EXCEPT !.pc = "activating"]
    /\ UNCHANGED fs

\* The synchronous part of resolveFile: the scheme test, and the path test
\* and the activateProvider call of _withProvider.
resolveFile(uri, to) ==
    /\ rs.pc = "idle"
    /\ rs' = LET r == [NoResolve EXCEPT !.scheme = uri.scheme, !.absolute = uri.absolute,
                                        !.root = uri.path, !.to = to,
                                        !.atCall = IF uri.scheme \in Schemes
                                                   THEN _provider[uri.scheme]
                                                   ELSE NoProvider] IN
             IF uri.scheme = LocalScheme THEN [r EXCEPT !.pc = "local"]
             ELSE IF ~isAbsolutePath(uri)
             THEN [r EXCEPT !.pc = "failed",
                            !.error = [kind |-> "FILE_INVALID_PATH", typed |-> TRUE]]
             ELSE [r EXCEPT !.pc = "activating"]
    /\ UNCHANGED fs

ResolveActivated_LookupAtCall(activated) ==
    /\ rs.pc = "activating"
    /\ rs' = IF ~activated
             THEN [rs EXCEPT !.pc = "failed", !.error = [kind |-> "EACTIVATE", typed |-> FALSE]]
             ELSE IF rs.atCall = NoProvider
             THEN [rs EXCEPT !.pc = "failed", !.error = [kind |-> "ENOPRO", typed |-> FALSE]]
             ELSE [rs EXCEPT !.pc = "stat", !.provider = rs.atCall]
    /\ UNCHANGED fs

\* activateProvider has settled: the provider lookup of _withProvider.
ResolveActivated(activated) ==
    LET provider == _withProvider_lookup(rs.scheme) IN
    /\ rs.pc = "activating"
    /\ rs' = IF ~activated
             THEN [rs EXCEPT !.pc = "failed", !.error = [kind |-> "EACTIVATE", typed |-> FALSE]]
             ELSE IF provider = NoProvider
             THEN [rs EXCEPT !.pc = "failed", !.error = [kind |-> "ENOPRO", typed |-> FALSE]]
             ELSE [rs EXCEPT !.pc = "stat", !.provider = provider]
    /\ UNCHANGED fs

ResolveStat_NoErrorHandler ==
    LET ans  == provider_stat(fs, rs.root)
        trie == trie_of(rs.root, rs.to)
        stat == FileStatOf(rs.provider, rs.root, ans.stat)
        expand == stat.isDirectory /\ recurse(trie, rs.root)
    IN
    /\ rs.pc = "stat"
    /\ rs' = IF ~ans.ok
             THEN [rs EXCEPT !.pc = "failed", !.stats = @ + 1,
                             !.error = [kind |-> "Unknown", typed |-> FALSE]]
             ELSE [rs EXCEPT !.stats = @ + 1, !.pc = IF expand THEN "expanding" ELSE "done",
                             !.nodes = (rs.root :> stat),
                             !.pending = IF expand THEN {rs.root} ELSE {}]
    /\ UNCHANGED fs

\* provider.stat(item.resource) has settled (lines 249-255): a rejection makes
\* the entry unsuccessful and resolveFile throws FILE_NOT_FOUND; otherwise
\* toDeepIFileStat starts with the root's own IFileStat.
ResolveStat ==
    LET ans  == provider_stat(fs, rs.root)
        trie == trie_of(rs.root, rs.to)
        stat == FileStatOf(rs.provider, rs.root, ans.stat)
        expand == stat.isDirectory /\ recurse(trie, rs.root)
    IN
    /\ rs.pc = "stat"
    /\ rs' = IF ~ans.ok
             THEN [rs EXCEPT !.pc = "failed", !.stats = @ + 1,
                             !.error = [kind |-> "FILE_NOT_FOUND", typed |-> TRUE]]
             ELSE [rs EXCEPT !.stats = @ + 1, !.pc = IF expand THEN "expanding" ELSE "done",
                             !.nodes = (rs.root :> stat),
                             !.pending = IF expand THEN {rs.root} ELSE {}]
    /\ UNCHANGED fs

ResolveReaddir_ChildrenEverywhere(dir, ok) ==
    LET trie    == trie_of(rs.root, rs.to)
        entries == provider_readdir(fs, dir)
        kids    == {joinPath(dir, e[1]) : e \in entries}
        statOf  == [c \in kids |->
                      FileStatOf(rs.provider, c,
                                 TypeOnlyStat((CHOOSE e \in entries : e[1] = basename(c))[2]))]
        more    == {c \in kids : statOf[c].isDirectory /\ recurse(trie, c)}
        pending == (rs.pending \ {dir}) \cup more
    IN
    /\ rs.pc = "expanding"
    /\ dir \in rs.pending
    /\ rs' = IF ~ok
             THEN [rs EXCEPT !.pc = "failed", !.readdirs = @ \cup {dir},
                             !.error = [kind |-> "Unknown", typed |-> FALSE]]
             ELSE [rs EXCEPT !.readdirs = @ \cup {dir},
                             !.nodes = statOf @@ @,
                             !.children = (dir :> kids) @@ [c \in kids |-> {}] @@ @,
                             !.pending = pending,
                             !.pc = IF pending = {} THEN "done" ELSE "expanding"]
    /\ UNCHANGED fs

ResolveReaddir_StatChildren(dir, ok) ==
    LET trie    == trie_of(rs.root, rs.to)
        entries == provider_readdir(fs, dir)
        kids    == {joinPath(dir, e[1]) : e \in entries}
        statOf  == [c \in kids |-> FileStatOf(rs.provider, c, provider_stat(fs, c).stat)]
        more    == {c \in kids : statOf[c].isDirectory /\ recurse(trie, c)}
        pending == (rs.pending \ {dir}) \cup more
    IN
    /\ rs.pc = "expanding"
    /\ dir \in rs.pending
    /\ rs' = IF ~ok
             THEN [rs EXCEPT !.pc = "failed", !.readdirs = @ \cup {dir},
                             !.error = [kind |-> "Unknown", typed |-> FALSE]]
             ELSE [rs EXCEPT !.readdirs = @ \cup {dir},
                             !.stats = @ + Cardinality(kids),
                             !.nodes = statOf @@ @,
                             !.children = (dir :> kids) @@ @,
                             !.pending = pending,
                             !.pc = IF pending = {} THEN "done" ELSE "expanding"]
    /\ UNCHANGED fs

\* One provider.readdir(resource) of toIFileStat has settled (lines 55-65):
\* every entry becomes a child built from its type alone; the children that
\* are directories and pass the predicate are read in turn.  A rejected
\* readdir rejects the whole chain of promises.
ResolveReaddir(dir, ok) ==
    LET trie    == trie_of(rs.root, rs.to)
        entries == provider_readdir(fs, dir)
        kids    == {joinPath(dir, e[1]) : e \in entries}
        statOf  == [c \in kids |->
                      FileStatOf(rs.provider, c,
                                 TypeOnlyStat((CHOOSE e \in entries : e[1] = basename(c))[2]))]
        more    == {c \in kids : statOf[c].isDirectory /\ recurse(trie, c)}
        pending == (rs.pending \ {dir}) \cup more
    IN
    /\ rs.pc = "expanding"
    /\ dir \in rs.pending
    /\ rs' = IF ~ok
             THEN [rs EXCEPT !.pc = "failed", !.readdirs = @ \cup {dir},
                             !.error = [kind |-> "Unknown", typed |-> FALSE]]
             ELSE [rs EXCEPT !.readdirs = @ \cup {dir},
                             !.nodes = statOf @@ @,
                             !.children = (dir :> kids) @@ @,
                             !.pending = pending,
                             !.pc = IF pending = {} THEN "done" ELSE "expanding"]
    /\ UNCHANGED fs

(***************************************************************************)
(* SpecResolve: one resolveFile on a tree that does not change.            *)
(***************************************************************************)
Dir  == IStat(FileType.Directory, 0, 0)
Link == IStat(FileType.Directory \cup FileType.SymbolicLink, 0, 0)
Doc  == IStat(FileType.File, 1, 1)

\* The tree /a/b/c.txt, /a/b/d.txt, /a/e/f.txt.
TreeABE ==
    (<<"a">> :> Dir) @@ (<<"a", "b">> :> Dir) @@ (<<"a", "e">> :> Dir)
    @@ (<<"a", "b", "c.txt">> :> Doc) @@ (<<"a", "b", "d.txt">> :> Doc)
    @@ (<<"a", "e", "f.txt">> :> Doc)
\* The same with a directory /a/b/x below /a/b and /a/e a linked directory.
TreeDeep ==
    (<<"a", "b", "x">> :> Dir) @@ (<<"a", "b", "x", "y.txt">> :> Doc)
    @@ (<<"a", "e">> :> Link) @@ TreeABE

ResolveTrees == {TreeABE, TreeDeep}
ResolveRoots == {<<"a">>, <<"a", "b">>, <<"a", "b", "c.txt">>, <<"z">>}
ResolveURIs  == {URI("foo", TRUE, q) : q \in ResolveRoots}
                   \cup {URI("foo", FALSE, <<"a">>), URI(LocalScheme, TRUE, <<"a">>)}
ResolveTargets == {<<"a", "b", "c.txt">>, <<"a", "b">>, <<"a", "e", "f.txt">>,
                   <<"a", "b", "x", "y.txt">>, <<"q">>}
TargetSets == {t \in SUBSET ResolveTargets : Cardinality(t) <= MaxTargets}

InitResolve ==
    /\ WatchInit /\ lastCall = NoCall /\ procs = <<>> /\ rd = <<>>
    /\ \E p \in Providers \cup {NoProvider} :
         /\ _provider = [s \in Schemes |-> IF s = "foo" THEN p ELSE NoProvider]
         /\ handles = IF p = NoProvider THEN {} ELSE {[scheme |-> "foo", provider |-> p]}
    /\ fs \in ResolveTrees
    /\ rs = NoResolve

ResolveFile == \E uri \in ResolveURIs, to \in TargetSets :
    resolveFile(uri, to) /\ UNCHANGED <<regVars, watchVars, lastCall, procs, rd, ws>>
ResolveProvider == \E activated \in BOOLEAN :
    ResolveActivated(activated) /\ UNCHANGED <<regVars, watchVars, lastCall, procs, rd, ws>>
ResolveRoot ==
    ResolveStat /\ UNCHANGED <<regVars, watchVars, lastCall, procs, rd, ws>>
ResolveChildren == \E dir \in rs.pending, ok \in BOOLEAN :
    ResolveReaddir(dir, ok) /\ UNCHANGED <<regVars, watchVars, lastCall, procs, rd, ws>>

NextResolve == ResolveFile \/ ResolveProvider \/ ResolveRoot \/ ResolveChildren

SpecResolve == InitResolve /\ [][NextResolve]_vars

(***************************************************************************)
(* Properties of the stat resolution engine (checked under SpecResolve).   *)
(***************************************************************************)
\* The directories of the tree a finished resolve has produced, and those
\* among them that were expanded: readdir called, children attached.
TreeDirs == {d \in DOMAIN rs.nodes : rs.nodes[d].isDirectory}
Expanded(d) == d \in rs.readdirs /\ d \in DOMAIN rs.children

\* C4 as stated: a directory of the produced tree is expanded iff its path
\* is a prefix of a target, or a target is a prefix of or equal to its path,
\* or it is the root and no targets were given.
C4_ExpandedIffStated ==
    rs.pc = "done" =>
      \A d \in TreeDirs :
        Expanded(d) <=>
          \/ \E t \in rs.to : IsPrefix(d, t)
          \/ \E t \in rs.to : IsPrefixOrEq(t, d)
          \/ (d = rs.root /\ rs.to = {})

\* C4, amended: a directory of the produced tree is expanded iff it is the
\* root (targets given or not) or its path is a prefix of or equal to a
\* target; a directory strictly below a target is not expanded.
C4_ExpandedIffOnPathToTarget ==
    rs.pc = "done" =>
      \A d \in TreeDirs :
        Expanded(d) <=> (d = rs.root \/ \E t \in rs.to : IsPrefixOrEq(d, t))

\* C4 witness: a finished resolve with a target that is a directory, which
\* was expanded while the directory below it was not.
C4_Witness ==
    /\ rs.pc = "done"
    /\ rs.root = <<"a">>
    /\ rs.to = {<<"a", "b">>}
    /\ Expanded(<<"a", "b">>)
    /\ <<"a", "b", "x">> \in TreeDirs
    /\ ~Expanded(<<"a", "b", "x">>)

\* C5: selective resolve bound.  readdir is only ever called on the root and
\* on directories that are a prefix of or equal to a target; on the tree
\* /a/b/c.txt, /a/b/d.txt, /a/e/f.txt with root /a and target /a/b/c.txt a
\* finished resolve has called readdir on /a and /a/b and on nothing else.
C5_ReaddirOnlyTowardsTargets ==
    /\ \A d \in rs.readdirs :
         d = rs.root \/ \E t \in rs.to : IsPrefixOrEq(d, t)
    /\ (fs = TreeABE /\ rs.root = <<"a">> /\ rs.to = {<<"a", "b", "c.txt">>}
          /\ rs.pc = "done") =>
         rs.readdirs = {<<"a">>, <<"a", "b">>}

\* C5 witness: that resolve has finished.
C5_Witness ==
    /\ fs = TreeABE /\ rs.root = <<"a">> /\ rs.to = {<<"a", "b", "c.txt">>}
    /\ rs.pc = "done"
    /\ rs.readdirs = {<<"a">>, <<"a", "b">>}
    /\ <<"a", "e">> \in TreeDirs

(***************************************************************************)
(* Content read pipeline: resolveContent / resolveStreamContent and        *)
(* _readFile.                                                              *)
(***************************************************************************)
NoEtag == <<>>

NoContent == [encoding |-> "", resource |-> Root, name |-> "", etag |-> NoEtag,
              mtime |-> 0, isReadonly |-> FALSE, size |-> 0,
              value |-> IStat({}, 0, 0)]

NoRead ==
    [pc |-> "idle", scheme |-> "", absolute |-> FALSE, resource |-> Root,
     options |-> [etag |-> NoEtag, acceptTextOnly |-> FALSE],
     provider |-> NoProvider, statted |-> FALSE, fileStat |-> NoFileStat,
     readdirs |-> 0, opens |-> 0, error |-> NoError, result |-> NoContent,
     openStreams |-> 0]   \* the streams opened for the read and neither ended nor destroyed

\* The test of line 293.
notModifiedSince_Never(fileStat, options) == FALSE

notModifiedSince(fileStat, options) == fileStat.etag = options.etag

ReadFailed(r, kind, typed) ==
    [r EXCEPT !.pc = "failed", !.error = [kind |-> kind, typed |-> typed]]

\* The synchronous part of resolveContent / resolveStreamContent: the scheme
\* test, and the path test and the activateProvider call of _withProvider.
resolveStreamContent(uri, options) ==
    /\ rd.pc = "idle"
    /\ rd' = LET r == [NoRead EXCEPT !.scheme = uri.scheme, !.absolute = uri.absolute,
                                     !.resource = uri.path, !.options = options] IN
             IF uri.scheme = LocalScheme THEN [r EXCEPT !.pc = "local"]
             ELSE IF ~isAbsolutePath(uri) THEN ReadFailed(r, "FILE_INVALID_PATH", TRUE)
             ELSE [r EXCEPT !.pc = "activating"]
    /\ UNCHANGED fs

\* activateProvider has settled: the provider lookup of _withProvider
\* (line 280), then the call of this.resolveFile(resource), which activates
\* and looks up again.
ReadActivated(activated) ==
    LET provider == _withProvider_lookup(rd.scheme) IN
    /\ rd.pc = "activating"
    /\ rd' = IF ~activated THEN ReadFailed(rd, "EACTIVATE", FALSE)
             ELSE IF provider = NoProvider THEN ReadFailed(rd, "ENOPRO", FALSE)
             ELSE [rd EXCEPT !.pc = "resolving", !.provider = provider]
    /\ UNCHANGED fs

ReadResolved_EtagFirst(activated, readdirOk) ==
    LET provider == _withProvider_lookup(rd.scheme)
        ans      == provider_stat(fs, rd.resource)
        fileStat == FileStatOf(provider, rd.resource, ans.stat)
        r        == [rd EXCEPT !.statted = TRUE, !.fileStat = fileStat]
    IN
    /\ rd.pc = "resolving"
    /\ rd' = IF ~activated THEN ReadFailed(rd, "EACTIVATE", FALSE)
             ELSE IF provider = NoProvider THEN ReadFailed(rd, "ENOPRO", FALSE)
             ELSE IF ~ans.ok THEN ReadFailed(rd, "FILE_NOT_FOUND", TRUE)
             ELSE IF fileStat.isDirectory /\ ~readdirOk
             THEN ReadFailed([rd EXCEPT !.readdirs = 1], "Unknown", FALSE)
             ELSE IF notModifiedSince(fileStat, rd.options)
             THEN ReadFailed(r, "FILE_NOT_MODIFIED_SINCE", TRUE)
             ELSE IF fileStat.isDirectory
             THEN ReadFailed([r EXCEPT !.readdirs = 1], "FILE_IS_DIRECTORY", TRUE)
             ELSE [r EXCEPT !.pc = "decoding"]
    /\ UNCHANGED fs

\* this.resolveFile(resource) has settled (lines 282-299): the stat of the
\* resource (with the readdir of its entries when it is a directory), then
\* the directory test and the etag test.
ReadResolved(activated, readdirOk) ==
    LET provider == _withProvider_lookup(rd.scheme)
        ans      == provider_stat(fs, rd.resource)
        fileStat == FileStatOf(provider, rd.resource, ans.stat)
        r        == [rd EXCEPT !.statted = TRUE, !.fileStat = fileStat]
    IN
    /\ rd.pc = "resolving"
    /\ rd' = IF ~activated THEN ReadFailed(rd, "EACTIVATE", FALSE)
             ELSE IF provider = NoProvider THEN ReadFailed(rd, "ENOPRO", FALSE)
             ELSE IF ~ans.ok THEN ReadFailed(rd, "FILE_NOT_FOUND", TRUE)
             ELSE IF fileStat.isDirectory /\ ~readdirOk
             THEN ReadFailed([rd EXCEPT !.readdirs = 1], "Unknown", FALSE)
             ELSE IF fileStat.isDirectory
             THEN ReadFailed([r EXCEPT !.readdirs = 1], "FILE_IS_DIRECTORY", TRUE)
             ELSE IF notModifiedSince(fileStat, rd.options)
             THEN ReadFailed(r, "FILE_NOT_MODIFIED_SINCE", TRUE)
             ELSE [r EXCEPT !.pc = "decoding"]
    /\ UNCHANGED fs

\* toDecodeStream(readable, ...) has settled (lines 308-330): the readable of
\* the provider is opened and read; the decoder reports whether the content
\* seems binary.  A stream that errors is destroyed; the decoded stream of a
\* read refused as binary is returned to nobody and is not consumed; the one
\* of a successful read is handed to the caller.
ReadDecoded(streamOk, seemsBinary) ==
    LET ans == provider_stat(fs, rd.resource) IN
    /\ rd.pc = "decoding"
    /\ rd' = IF ~ans.ok \/ ~streamOk
             THEN ReadFailed([rd EXCEPT !.opens = @ + 1], "Unknown", FALSE)
             ELSE IF rd.options.acceptTextOnly /\ seemsBinary
             THEN ReadFailed([rd EXCEPT !.opens = @ + 1, !.openStreams = @ + 1],
                             "FILE_IS_BINARY", TRUE)
             ELSE [rd EXCEPT !.opens = @ + 1, !.openStreams = @ + 1, !.pc = "done",
                     !.result = [encoding |-> "utf8",
                                 resource |-> rd.fileStat.resource,
                                 name |-> rd.fileStat.name,
                                 etag |-> rd.fileStat.etag,
                                 mtime |-> rd.fileStat.mtime,
                                 isReadonly |-> rd.fileStat.isReadonly,
                                 size |-> rd.fileStat.size,
                                 value |-> ans.stat]]
    /\ UNCHANGED fs

\* Another client of the provider rewrites a file: its mtime moves on.
ExternalWrite(path) ==
    /\ path \in DOMAIN fs
    /\ fs[path].type = FileType.File
    /\ fs[path].mtime < MaxMtime
    /\ fs' = [fs EXCEPT ![path].mtime = @ + 1]
    /\ UNCHANGED rd

(***************************************************************************)
(* SpecRead: one read of a resource while its file may be rewritten.       *)
(***************************************************************************)
ReadTree  == (<<"a">> :> IStat(FileType.File, 1, 1)) @@ (<<"d">> :> IStat(FileType.Directory, 0, 0))
ReadURIs  == {URI("foo", TRUE, q) : q \in {<<"a">>, <<"d">>, <<"z">>}}
                \cup {URI("foo", FALSE, <<"a">>), URI(LocalScheme, TRUE, <<"a">>)}
ReadEtags == {NoEtag, etag(0, 0)} \cup {etag(m, 1) : m \in 1..MaxMtime}
ReadOptions == [etag : ReadEtags, acceptTextOnly : BOOLEAN]

InitRead ==
    /\ WatchInit /\ lastCall = NoCall /\ procs = <<>> /\ rs = <<>>
    /\ \E p \in Providers \cup {NoProvider} :
         /\ _provider = [s \in Schemes |-> IF s = "foo" THEN p ELSE NoProvider]
         /\ handles = IF p = NoProvider THEN {} ELSE {[scheme |-> "foo", provider |-> p]}
    /\ fs = ReadTree
    /\ rd = NoRead

ReadStart == \E uri \in ReadURIs, options \in ReadOptions :
    resolveStreamContent(uri, options)
        /\ UNCHANGED <<regVars, watchVars, lastCall, procs, rs, ws>>
ReadProvider == \E activated \in BOOLEAN :
    ReadActivated(activated) /\ UNCHANGED <<regVars, watchVars, lastCall, procs, rs, ws>>
ReadStat == \E activated \in BOOLEAN, readdirOk \in BOOLEAN :
    ReadResolved(activated, readdirOk)
        /\ UNCHANGED <<regVars, watchVars, lastCall, procs, rs, ws>>
ReadDecode == \E streamOk \in BOOLEAN, seemsBinary \in BOOLEAN :
    ReadDecoded(streamOk, seemsBinary)
        /\ UNCHANGED <<regVars, watchVars, lastCall, procs, rs, ws>>
Rewrite == \E path \in DOMAIN fs :
    ExternalWrite(path) /\ UNCHANGED <<regVars, watchVars, lastCall, procs, rs, ws>>

NextRead == ReadStart \/ ReadProvider \/ ReadStat \/ ReadDecode \/ Rewrite

SpecRead == InitRead /\ [][NextRead]_vars

(***************************************************************************)
(* Properties of the read pipeline (checked under SpecRead).               *)
(***************************************************************************)
\* The read has obtained the stat of its resource, which is not a directory.
ReadStatted == rd.statted /\ ~rd.fileStat.isDirectory

\* C6: conditional read.  The etag of the stat is that of the file (of the
\* file as it is, when it has not been rewritten).  A read whose options.etag
\* equals it has failed with FILE_NOT_MODIFIED_SINCE and has opened no
\* stream; a read with another etag, or none, goes on to open the stream
\* (once) and fails only on a stream error or on binary content refused by
\* acceptTextOnly; its result carries the etag, mtime and size of that stat.
C6_ConditionalRead ==
    /\ (ReadStatted /\ fs = ReadTree) =>
         rd.fileStat.etag = etag(fs[rd.resource].mtime, fs[rd.resource].size)
    /\ (ReadStatted /\ rd.fileStat.etag = rd.options.etag) =>
         /\ rd.pc = "failed"
         /\ rd.error = [kind |-> "FILE_NOT_MODIFIED_SINCE", typed |-> TRUE]
         /\ rd.opens = 0
    /\ (ReadStatted /\ rd.fileStat.etag # rd.options.etag) =>
         \/ rd.pc = "decoding" /\ rd.opens = 0
         \/ rd.pc = "done" /\ rd.opens = 1
         \/ /\ rd.pc = "failed" /\ rd.opens = 1
            /\ \/ rd.error.kind = "Unknown"
               \/ rd.error.kind = "FILE_IS_BINARY" /\ rd.options.acceptTextOnly
    /\ rd.pc = "done" =>
         /\ ReadStatted
         /\ rd.result.etag = rd.fileStat.etag
         /\ rd.result.etag = etag(rd.result.mtime, rd.result.size)
         /\ rd.result.etag # rd.options.etag

\* C6 witness: the file has been rewritten, the read was given the etag of
\* the rewritten file and has been refused as not modified, no stream opened.
C6_Witness ==
    /\ rd.pc = "failed"
    /\ rd.error.kind = "FILE_NOT_MODIFIED_SINCE"
    /\ rd.opens = 0
    /\ fs[rd.resource].mtime = 2
    /\ rd.options.etag = etag(fs[rd.resource].mtime, fs[rd.resource].size)

(***************************************************************************)
(* SpecWatchLive: Spec with the scheduling of promise continuations.  The  *)
(* activation of a provider settles, and a continuation whose promise has  *)
(* settled is run by the event loop.                                       *)
(***************************************************************************)
RemoteResources == {r \in WatchResources : r.scheme # LocalScheme /\ isAbsolutePath(r)}

RegisterOne == registerProvider("foo", "A") /\ UNCHANGED <<watchVars, fs, procs, rs, rd, ws>>
WatchRemote == \E r \in RemoteResources :
                watchFileChanges(r) /\ UNCHANGED <<regVars, fs, procs, rs, rd, ws>>
UnwatchRemote == \E r \in RemoteResources :
                unwatchFileChanges(r) /\ UNCHANGED <<regVars, fs, procs, rs, rd, ws>>

NextWatchLive == \/ RegisterOne \/ Unregister \/ WatchRemote \/ UnwatchRemote
                 \/ WatchResolved \/ Disposed

SpecWatchLive == /\ Init /\ [][NextWatchLive]_vars
                 /\ WF_vars(WatchResolved) /\ WF_vars(Disposed)

(***************************************************************************)
(* Further properties of the watch manager.                                *)
(***************************************************************************)
NonLocal(resource) == resource.scheme # LocalScheme

\* C11: a watch on a non-local resource never throws to its caller, and a
\* failed provider resolution or a failed provider.watch leaves the entry
\* with a no-op disposable: no entry's subscription is a rejected promise.
C11_WatchNeverThrows ==
    /\ (lastCall.op = "watchFileChanges" /\ NonLocal(lastCall.arg[1])) =>
         lastCall.result = "ok"
    /\ \A i \in 1..MaxSubs : subs[i].state # "rejected"

\* The provider resolutions started for a resource whose entry has not been
\* unwatched to 0 since.
LiveSubs(resource) ==
    {i \in 1..MaxSubs : /\ subs[i].state # "free"
                        /\ subs[i].resource = resource
                        /\ subs[i].thens = 0
                        /\ subs[i].disposed = 0}

\* C12: a watch on a resource with an entry only raises the refcount and
\* keeps the entry's one subscription; a watch without an entry stores the
\* entry (refcount 1) in the same step that starts the provider resolution,
\* so at any moment, also while the provider is being resolved, a resource
\* has exactly one live subscription when it has an entry and none otherwise.
C12_NoSecondSubscription ==
    /\ \A r \in WatchResources :
         LiveSubs(r) = IF _activeWatches[r] # NoEntry
                       THEN {_activeWatches[r].unwatch} ELSE {}
    /\ (lastCall.op = "watchFileChanges" /\ lastCall.result = "ok") =>
         LET e == _activeWatches[lastCall.arg[1]] IN
         IF lastCall.prev = NoEntry
         THEN e.count = 1
         ELSE e = [count |-> lastCall.prev.count + 1, unwatch |-> lastCall.prev.unwatch]

\* C12 witness: the second watch arrived while the provider of the first was
\* still being resolved; the refcount is 2 and one resolution is under way.
C12_Witness ==
    /\ lastCall.op = "watchFileChanges"
    /\ lastCall.prev # NoEntry
    /\ _activeWatches[lastCall.arg[1]].count = 2
    /\ subs[_activeWatches[lastCall.arg[1]].unwatch].state = "activating"
    /\ Cardinality({i \in 1..MaxSubs : subs[i].state # "free"}) = 1

\* The provider resolution i was started for an entry that has been removed.
Orphaned(i) ==
    /\ subs[i].state # "free"
    /\ \A r \in WatchResources :
         _activeWatches[r] = NoEntry \/ _activeWatches[r].unwatch # i

\* C13: an unwatch that takes the refcount to 0 removes the entry at once,
\* and the subscription of that entry is disposed once its promise has
\* resolved: every subscription of a removed entry, whether the entry was
\* removed before or after the provider was resolved, is eventually
\* disposed (unless provider.watch threw, and there is no subscription).
C13_DisposedOnceResolved ==
    /\ []((lastCall.op = "unwatchFileChanges" /\ lastCall.prev.count = 1) =>
            _activeWatches[lastCall.arg[1]] = NoEntry)
    /\ \A i \in 1..MaxSubs :
         Orphaned(i) ~> (subs[i].disposed = 1 \/ subs[i].state = "rejected")

\* C13 witness: the unwatch took the refcount to 0 and removed the entry
\* while the provider was still being resolved; the disposal is pending.
C13_Witness ==
    /\ lastCall.op = "unwatchFileChanges"
    /\ lastCall.prev.count = 1
    /\ _activeWatches[lastCall.arg[1]] = NoEntry
    /\ subs[lastCall.prev.unwatch].state = "activating"
    /\ subs[lastCall.prev.unwatch].thens = 1

(***************************************************************************)
(* WorkspaceWatchLogic: the policy that keeps the workspace folders        *)
(* watched.  Its handlers run to completion; they are computed over a      *)
(* record st of the state they touch:                                      *)
(*   aw, sb      _activeWatches and the promises of its entries            *)
(*   w           WorkspaceWatchLogic._watches (the keys)                   *)
(*   issued      per folder, the watchFileChanges calls of the policy      *)
(*               minus its unwatchFileChanges calls                        *)
(*   watched, unwatched   the folders the handler has called               *)
(*               watchFileChanges / unwatchFileChanges with                *)
(*   threw       an exception has left the handler                         *)
(*   blocked     the handler needs more than the bounds of the model       *)
(***************************************************************************)
FirstFreeIn(sb) == CHOOSE i \in 1..MaxSubs :
                      sb[i].state = "free" /\ \A j \in 1..(i-1) : sb[j].state # "free"

\* watchFileChanges, as called from the policy.
watchFileChangesOn(st, resource) ==
    LET entry == st.aw[resource]
        s1    == [st EXCEPT !.watched = @ \cup {resource}] IN
    IF resource.scheme = LocalScheme THEN s1
    ELSE IF entry # NoEntry
    THEN IF entry.count < MaxCount
         THEN [s1 EXCEPT !.aw[resource].count = entry.count + 1]
         ELSE [s1 EXCEPT !.blocked = TRUE]
    ELSE IF ~isAbsolutePath(resource) THEN [s1 EXCEPT !.threw = TRUE]
    ELSE IF \A i \in 1..MaxSubs : st.sb[i].state # "free"
    THEN [s1 EXCEPT !.blocked = TRUE]
    ELSE [s1 EXCEPT !.sb[FirstFreeIn(st.sb)].state = "activating",
                    !.sb[FirstFreeIn(st.sb)].resource = resource,
                    !.aw[resource] = [count |-> 1, unwatch |-> FirstFreeIn(st.sb)]]

\* unwatchFileChanges, as called from the policy.
unwatchFileChangesOn(st, resource) ==
    LET entry == st.aw[resource]
        s1    == [st EXCEPT !.unwatched = @ \cup {resource}] IN
    IF resource.scheme = LocalScheme THEN s1
    ELSE IF entry # NoEntry /\ entry.count - 1 = 0
    THEN [s1 EXCEPT !.sb[entry.unwatch].thens = @ + 1, !.aw[resource] = NoEntry]
    ELSE IF entry # NoEntry
    THEN [s1 EXCEPT !.aw[resource].count = entry.count - 1]
    ELSE s1

_watchWorkspace(st, resource) ==
    watchFileChangesOn([st EXCEPT !.w = @ \cup {resource},
                                  !.issued[resource] = @ + 1], resource)

_unwatchWorkspace_DeleteOnly(st, resource) ==
    [st EXCEPT !.w = @ \ {resource}]

_unwatchWorkspace(st, resource) ==
    IF resource \in st.w
    THEN [unwatchFileChangesOn(st, resource) EXCEPT
             !.w = @ \ {resource}, !.issued[resource] = @ - 1]
    ELSE st

\* this._watches.forEach(uri => unwatchFileChanges(uri)); this._watches.clear()
RECURSIVE UnwatchEach(_, _)
UnwatchEach(st, todo) ==
    IF todo = {} THEN st
    ELSE LET uri == CHOOSE u \in todo : TRUE IN
         UnwatchEach([unwatchFileChangesOn(st, uri) EXCEPT !.issued[uri] = @ - 1],
                     todo \ {uri})

_unwatchWorkspaces(st) == [UnwatchEach(st, st.w) EXCEPT !.w = {}]

\* for (const removed of e.removed) this._unwatchWorkspace(removed.uri)
RECURSIVE UnwatchRemoved(_, _)
UnwatchRemoved(st, removed) ==
    IF removed = <<>> THEN st
    ELSE UnwatchRemoved(_unwatchWorkspace(st, Head(removed)), Tail(removed))

\* for (const added of e.added) this._watchWorkspace(added.uri): an exception
\* of _watchWorkspace leaves the loop and the handler.
RECURSIVE WatchAdded(_, _)
WatchAdded(st, added) ==
    IF added = <<>> \/ st.threw THEN st
    ELSE WatchAdded(_watchWorkspace(st, Head(added)), Tail(added))

\* The listener of onDidChangeWorkspaceFolders.
onDidChangeWorkspaceFolders(st, removed, added) ==
    WatchAdded(UnwatchRemoved(st, removed), added)

\* The folders of the loop of _refresh that pass its scheme test, in order.
RECURSIVE NonFileFolders(_)
NonFileFolders(folders) ==
    IF folders = <<>> THEN <<>>
    ELSE IF Head(folders).scheme # LocalScheme
         THEN <<Head(folders)>> \o NonFileFolders(Tail(folders))
         ELSE NonFileFolders(Tail(folders))

_refresh(st, folders) == WatchAdded(_unwatchWorkspaces(st), NonFileFolders(folders))

(***************************************************************************)
(* SpecWorkspace: the workspace policy driven by the events of the         *)
(* workspace and of the configuration, over the watch manager.  The        *)
(* workspace starts empty; a folders event removes folders of the          *)
(* workspace and adds folders that are not in it.  Provider A serves the   *)
(* scheme of the remote folders.                                           *)
(***************************************************************************)
WorkspaceFolders == WatchResources

\* The orders in which the elements of a set can come in an array.
Orderings(S) ==
    {seq \in [1..Cardinality(S) -> S] : \A i, j \in DOMAIN seq : seq[i] = seq[j] => i = j}

NoEvent == [op |-> "none", before |-> {}, removed |-> {}, added |-> {},
            watched |-> {}, unwatched |-> {}, threw |-> FALSE]

HandlerState ==
    [aw |-> _activeWatches, sb |-> subs, w |-> ws._watches, issued |-> ws.issued,
     watched |-> {}, unwatched |-> {}, threw |-> FALSE, blocked |-> FALSE]

\* The state a handler leaves behind.
Handled(st, op, folders, removed, added, disposed) ==
    /\ ~st.blocked
    /\ _activeWatches' = st.aw
    /\ subs' = st.sb
    /\ ws' = [folders |-> folders, _watches |-> st.w, issued |-> st.issued,
              disposed |-> disposed,
              last |-> [op |-> op, before |-> ws._watches, removed |-> removed,
                        added |-> added, watched |-> st.watched,
                        unwatched |-> st.unwatched, threw |-> st.threw]]

InitWorkspace ==
    /\ _provider = [s \in Schemes |-> IF s = "foo" THEN "A" ELSE NoProvider]
    /\ handles = {[scheme |-> "foo", provider |-> "A"]}
    /\ lastCall = NoCall /\ OtherIdle
    /\ _activeWatches = [r \in WatchResources |-> NoEntry]
    /\ subs = [i \in 1..MaxSubs |-> FreeSub]
    /\ ws = [folders |-> {}, _watches |-> {},
             issued |-> [r \in WorkspaceFolders |-> 0],
             disposed |-> FALSE, last |-> NoEvent]

FoldersChanged ==
    /\ ~ws.disposed
    /\ \E removedSet \in SUBSET ws.folders,
          addedSet \in SUBSET (WorkspaceFolders \ ws.folders) :
         /\ removedSet \cup addedSet # {}
         /\ \E removed \in Orderings(removedSet), added \in Orderings(addedSet) :
              Handled(onDidChangeWorkspaceFolders(HandlerState, removed, added),
                      "folders", (ws.folders \ removedSet) \cup addedSet,
                      removedSet, addedSet, FALSE)
    /\ UNCHANGED <<regVars, lastCall, fs, procs, rs, rd>>

WorkbenchStateChanged ==
    /\ ~ws.disposed
    /\ \E folders \in Orderings(ws.folders) :
         Handled(_refresh(HandlerState, folders), "state", ws.folders, {}, {}, FALSE)
    /\ UNCHANGED <<regVars, lastCall, fs, procs, rs, rd>>

\* e.affectsConfiguration('files.watcherExclude') is `affects`.
ConfigurationChanged ==
    /\ ~ws.disposed
    /\ \E affects \in BOOLEAN :
         IF affects
         THEN \E folders \in Orderings(ws.folders) :
                Handled(_refresh(HandlerState, folders), "exclude", ws.folders,
                        {}, {}, FALSE)
         ELSE Handled(HandlerState, "configuration", ws.folders, {}, {}, FALSE)
    /\ UNCHANGED <<regVars, lastCall, fs, procs, rs, rd>>

DisposePolicy ==
    /\ ~ws.disposed
    /\ Handled(_unwatchWorkspaces(HandlerState), "dispose", ws.folders, {}, {}, TRUE)
    /\ UNCHANGED <<regVars, lastCall, fs, procs, rs, rd>>

NextWorkspace == \/ FoldersChanged \/ WorkbenchStateChanged \/ ConfigurationChanged
                 \/ DisposePolicy \/ WatchResolved \/ Disposed

SpecWorkspace == InitWorkspace /\ [][NextWorkspace]_vars

(***************************************************************************)
(* Properties of the workspace policy (checked under SpecWorkspace).       *)
(***************************************************************************)
NonLocalOf(folders) == {f \in folders : f.scheme # LocalScheme}

\* C14: on a folders event the policy unwatches each removed folder it
\* tracks and starts a watch on each added folder unless the folder's
\* scheme is the local one; the watch set never holds a local folder.
C14_NoLocalFolderWatched ==
    /\ \A f \in ws._watches : f.scheme # LocalScheme
    /\ ws.last.op = "folders" =>
         /\ ws.last.unwatched = ws.last.removed
         /\ ws.last.watched = NonLocalOf(ws.last.added)

\* C15: on a workbench-state change and on a change of files.watcherExclude
\* the policy unwatches every folder of its watch set and then watches every
\* folder of the workspace that is not local; right after, the watch set is
\* exactly the non-local folders of the workspace.
C15_RebuildWatchSet ==
    ws.last.op \in {"state", "exclude"} =>
        /\ ws.last.unwatched = ws.last.before
        /\ ws.last.watched = NonLocalOf(ws.folders)
        /\ ws._watches = NonLocalOf(ws.folders)

RelativeURIs == {URI("foo", FALSE, q) : q \in {<<"a">>, <<"a", "b">>}}

InitInvalidPath ==
    /\ WatchInit /\ lastCall = NoCall
    /\ \E p \in Providers \cup {NoProvider} :
         /\ _provider = [s \in Schemes |-> IF s = "foo" THEN p ELSE NoProvider]
         /\ handles = IF p = NoProvider THEN {} ELSE {[scheme |-> "foo", provider |-> p]}
    /\ fs = ReadTree
    /\ procs = [w \in Writers |-> NewProc("none", URI("", FALSE, Root), FALSE)]
    /\ rs = NoResolve
    /\ rd = NoRead

CreateRelative == \E w \in Writers, uri \in RelativeURIs, overwrite \in BOOLEAN :
    createFile(w, uri, overwrite) /\ UNCHANGED <<regVars, watchVars, lastCall, rs, rd, ws>>
UpdateRelative == \E w \in Writers, uri \in RelativeURIs :
    updateContent(w, uri) /\ UNCHANGED <<regVars, watchVars, lastCall, rs, rd, ws>>
ResolveRelative == \E uri \in RelativeURIs :
    resolveFile(uri, {}) /\ UNCHANGED <<regVars, watchVars, lastCall, procs, rd, ws>>
ReadRelative == \E uri \in RelativeURIs, options \in ReadOptions :
    resolveStreamContent(uri, options)
        /\ UNCHANGED <<regVars, watchVars, lastCall, procs, rs, ws>>

NextInvalidPath == CreateRelative \/ UpdateRelative \/ ResolveRelative \/ ReadRelative

SpecInvalidPath == InitInvalidPath /\ [][NextInvalidPath]_vars

InvalidPath == [kind |-> "FILE_INVALID_PATH", typed |-> TRUE]

\* C17: a resolve, read, create or write on a resource of a provider scheme
\* whose path is not absolute has failed with FILE_INVALID_PATH as soon as it
\* is called: it is never waiting for an activation, it has no provider and
\* it has called no method of a provider.
C17_InvalidPathBeforeActivation ==
    /\ \A w \in DOMAIN procs :
         (procs[w].op # "none" /\ procs[w].scheme # LocalScheme /\ ~procs[w].absolute) =>
            /\ procs[w].pc = "failed" /\ procs[w].error = InvalidPath
            /\ procs[w].provider = NoProvider /\ procs[w].calls = <<>>
    /\ (rs.pc # "idle" /\ rs.scheme # LocalScheme /\ ~rs.absolute) =>
            /\ rs.pc = "failed" /\ rs.error = InvalidPath
            /\ rs.provider = NoProvider /\ rs.readdirs = {} /\ rs.nodes = <<>>
    /\ (rd.pc # "idle" /\ rd.scheme # LocalScheme /\ ~rd.absolute) =>
            /\ rd.pc = "failed" /\ rd.error = InvalidPath
            /\ rd.provider = NoProvider /\ ~rd.statted
            /\ rd.readdirs = 0 /\ rd.opens = 0

\* C17 witness: with a provider registered for the scheme, a createFile, an
\* updateContent, a resolve and a read of foo:a have all failed.
C17_Witness ==
    /\ _provider["foo"] # NoProvider
    /\ \E w \in Writers : procs[w].op = "createFile" /\ procs[w].scheme = "foo"
                          /\ procs[w].pc = "failed"
    /\ \E w \in Writers : procs[w].op = "updateContent" /\ procs[w].scheme = "foo"
                          /\ procs[w].pc = "failed"
    /\ rs.pc = "failed" /\ rs.scheme = "foo"
    /\ rd.pc = "failed" /\ rd.scheme = "foo"

(***************************************************************************)
(* SpecActivation: one resolveFile while providers are registered and      *)
(* unregistered, also during the activation the resolve waits for.         *)
(***************************************************************************)
ActivationURIs == {URI("foo", TRUE, q) : q \in {<<"a">>, <<"z">>}}

InitActivation ==
    /\ RegInit /\ WatchInit /\ lastCall = NoCall /\ procs = <<>> /\ rd = <<>>
    /\ fs = TreeABE
    /\ rs = NoResolve

ResolveStart == \E uri \in ActivationURIs :
    resolveFile(uri, {}) /\ UNCHANGED <<regVars, watchVars, lastCall, procs, rd, ws>>

NextActivation == \/ Register \/ Unregister \/ ResolveStart \/ ResolveProvider
                  \/ ResolveRoot \/ ResolveChildren

SpecActivation == InitActivation /\ [][NextActivation]_vars

\* C18: the provider is looked up when the activation of the scheme has
\* completed and not before.  While the operation waits for the activation
\* it has no provider; the step that ends the wait either fails with the
\* error of the activation, or fails with ENOPRO when the scheme has no
\* provider at that moment, or goes on with the provider that is registered
\* at that moment, whatever was registered when the operation was called.
C18_LookupAfterActivation ==
    /\ [](rs.pc \in {"idle", "activating"} => rs.provider = NoProvider)
    /\ [][(rs.pc = "activating" /\ rs'.pc # "activating") =>
            \/ rs'.pc = "failed" /\ rs'.error.kind = "EACTIVATE"
            \/ /\ _provider[rs.scheme] = NoProvider
               /\ rs'.pc = "failed" /\ rs'.error.kind = "ENOPRO"
            \/ /\ _provider[rs.scheme] # NoProvider
               /\ rs'.pc = "stat" /\ rs'.provider = _provider[rs.scheme]]_vars

\* C18 witness: no provider was registered when the resolve was called; one
\* was registered during the activation, and the resolve has gone on with it.
C18_Witness ==
    /\ rs.atCall = NoProvider
    /\ rs.pc = "done"
    /\ rs.provider # NoProvider
    /\ rs.provider = _provider[rs.scheme]

(***************************************************************************)
(* Failures during a resolve (checked under SpecResolve).                  *)
(***************************************************************************)
\* C19: a stat or readdir failure on a descendant is isolated to its branch
\* and the resolve of the root still succeeds: a resolve that has read a
\* directory below its root has not failed.
C19_DescendantFailureIsolated ==
    rs.pc = "failed" => rs.readdirs \subseteq {rs.root}

\* C20: when provider.stat of the root fails, the resolve fails as a whole
\* with FILE_NOT_FOUND, and it has issued no readdir and built no stat.
C20_RootStatFailure ==
    (rs.pc \notin {"idle", "local", "activating", "stat"}
       /\ rs.provider # NoProvider /\ ~provider_stat(fs, rs.root).ok) =>
        /\ rs.pc = "failed"
        /\ rs.error = [kind |-> "FILE_NOT_FOUND", typed |-> TRUE]
        /\ rs.readdirs = {}
        /\ rs.nodes = <<>> /\ rs.children = <<>>

\* C20 witness: the stat of foo:/z, which does not exist, has been answered
\* by a registered provider, and the resolve given targets has failed.
C20_Witness ==
    /\ rs.pc = "failed"
    /\ rs.provider # NoProvider
    /\ rs.root = <<"z">>
    /\ rs.to # {}
    /\ rs.error.kind = "FILE_NOT_FOUND"

(***************************************************************************)
(* The shape of the tree a resolve returns (checked under SpecResolve).    *)
(***************************************************************************)
\* C21: in the tree of a finished resolve the nodes that carry children are
\* exactly the directories on which readdir was called; a node that is not a
\* directory and a directory that was not expanded carry none, and the
\* children of an expanded directory are the nodes directly below it.
C21_ChildrenOnlyOnExpanded ==
    /\ DOMAIN rs.children \subseteq rs.readdirs
    /\ rs.pc = "done" =>
         /\ DOMAIN rs.children = rs.readdirs
         /\ DOMAIN rs.children \subseteq TreeDirs
         /\ \A n \in DOMAIN rs.nodes :
              ~rs.nodes[n].isDirectory => n \notin DOMAIN rs.children
         /\ \A d \in DOMAIN rs.children :
              rs.children[d] = {n \in DOMAIN rs.nodes : n # Root /\ n # rs.root
                                                        /\ dirname(n) = d}

\* C21 witness: a finished resolve whose tree has a file, a directory that
\* was not expanded and a directory that was.
C21_Witness ==
    /\ rs.pc = "done"
    /\ rs.root = <<"a">>
    /\ rs.to = {<<"a", "b">>}
    /\ <<"a", "b", "c.txt">> \in DOMAIN rs.nodes
    /\ <<"a", "b", "c.txt">> \notin DOMAIN rs.children
    /\ <<"a", "e">> \in TreeDirs
    /\ <<"a", "e">> \notin DOMAIN rs.children
    /\ <<"a", "b">> \in DOMAIN rs.children

\* C22: a resolve of a directory without targets expands one level: readdir
\* is called on the root and on nothing else, and every node of the result
\* is the root or directly below it, the directories among them unexpanded.
C22_OneLevelWithoutTargets ==
    /\ rs.to = {} => rs.readdirs \subseteq {rs.root}
    /\ (rs.pc = "done" /\ rs.to = {} /\ rs.nodes[rs.root].isDirectory) =>
         /\ rs.readdirs = {rs.root}
         /\ DOMAIN rs.children = {rs.root}
         /\ \A n \in DOMAIN rs.nodes : n = rs.root \/ dirname(n) = rs.root

\* C22 witness: a finished resolve of /a without targets on the deep tree;
\* its child /a/b is a directory and has not been expanded.
C22_Witness ==
    /\ rs.pc = "done"
    /\ rs.to = {}
    /\ fs = TreeDeep
    /\ rs.root = <<"a">>
    /\ <<"a", "b">> \in TreeDirs
    /\ ~Expanded(<<"a", "b">>)
    /\ <<"a", "b", "x">> \notin DOMAIN rs.nodes

(***************************************************************************)
(* Outcomes of the write pipeline (checked under SpecWrite).               *)
(***************************************************************************)
LastCall(proc) == proc.calls[Len(proc.calls)]

\* C23: a write completes when the sink signals finish and fails as soon as
\* the encoder or the sink signals an error: a write whose sink has signalled
\* an error has failed, and no write stays pending after an encoder error.
C23_WriteSettles ==
    \A w \in DOMAIN procs :
        /\ procs[w].pc # "pending"
        /\ (procs[w].calls # <<>> /\ LastCall(procs[w]).op = "write"
              /\ ~LastCall(procs[w]).ok) => procs[w].pc = "failed"

\* C24: a successful createFile or updateContent returns the stat of the
\* re-resolve of its resource, and a failed one, at whatever step it failed,
\* carries a typed FileOperationError, never the raw error.
C24_WriteResultAndTypedError ==
    \A w \in DOMAIN procs :
        /\ procs[w].pc = "done" =>
             /\ LastCall(procs[w]).op = "stat"
             /\ LastCall(procs[w]).path = procs[w].resource
             /\ LastCall(procs[w]).ok
             /\ procs[w].result.resource = procs[w].resource
        /\ procs[w].pc = "failed" => procs[w].error.typed

\* C25: a successful create or update of a non-local resource has emitted
\* exactly one operation event, and an operation that has not succeeded has
\* emitted none.
C25_OneEventPerSuccess ==
    \A w \in DOMAIN procs :
        procs[w].events = IF procs[w].pc = "done" THEN 1 ELSE 0

\* The calls a write has made on its own target.
CallsOnTarget(proc) ==
    {i \in DOMAIN proc.calls : proc.calls[i].path = proc.resource}

\* C26: createFile relies on the create semantics of the provider.  Up to
\* the write it has made no call (no stat) on its target; and when the sink
\* is opened on a target that exists and overwrite was not requested, the
\* step ends without success and without any change of the tree: the sink
\* reports the error and createFile fails (an error of the encoder leaves it
\* pending).  With overwrite requested, or on a target that does not exist,
\* the sink can finish.
C26_CreateFailsOnExisting ==
    /\ [](\A w \in DOMAIN procs :
            (procs[w].op = "createFile" /\ procs[w].pc \in {"walk", "create", "write"}) =>
                CallsOnTarget(procs[w]) = {})
    /\ [][\A w \in DOMAIN procs :
            (/\ procs[w].op = "createFile"
             /\ procs[w].pc = "write" /\ procs'[w].pc # "write"
             /\ ~procs[w].overwrite
             /\ Exists(fs, procs[w].resource)) =>
                /\ fs' = fs
                /\ procs'[w].pc \in {"failed", "pending"}
                /\ procs'[w].pc = "failed" =>
                     /\ LastCall(procs'[w]).op = "write"
                     /\ ~LastCall(procs'[w]).ok]_vars

\* C26 witness: a createFile without overwrite, alone, on a target that
\* exists has failed at the write, its only call on the target.
C26_Witness ==
    \E w \in DOMAIN procs :
        /\ procs[w].op = "createFile" /\ ~procs[w].overwrite
        /\ procs[w].pc = "failed" /\ procs[w].calls # <<>>
        /\ LastCall(procs[w]).op = "write" /\ ~LastCall(procs[w]).ok
        /\ CallsOnTarget(procs[w]) = {Len(procs[w].calls)}
        /\ Exists(fs, procs[w].resource)
        /\ \A v \in DOMAIN procs : v # w => procs[v].op = "none"

(***************************************************************************)
(* Failures of a read (checked under SpecRead).                            *)
(***************************************************************************)
\* C27: a read with acceptTextOnly of content the decoder flags as binary
\* fails with FILE_IS_BINARY, and the stream opened for it is drained or
\* discarded before the failure is reported: a failed read leaves no stream
\* open.
C27_NoStreamLeftOpen ==
    /\ rd.pc = "failed" => rd.openStreams = 0
    /\ (rd.pc = "failed" /\ rd.opens = 1 /\ rd.error.typed) =>
         rd.error.kind = "FILE_IS_BINARY" /\ rd.options.acceptTextOnly

\* C28: a read of a directory fails with FILE_IS_DIRECTORY; the test comes
\* before the etag test, so it fails that way also when options.etag is the
\* etag of the directory, and before the stream is opened.
C28_DirectoryBeforeEtag ==
    (rd.statted /\ rd.fileStat.isDirectory) =>
        /\ rd.pc = "failed"
        /\ rd.error = [kind |-> "FILE_IS_DIRECTORY", typed |-> TRUE]
        /\ rd.opens = 0 /\ rd.openStreams = 0

\* C28 witness: the read of a directory, given the etag of the directory,
\* has failed with FILE_IS_DIRECTORY.
C28_Witness ==
    /\ rd.pc = "failed"
    /\ rd.statted /\ rd.fileStat.isDirectory
    /\ rd.options.etag = rd.fileStat.etag
    /\ rd.error.kind = "FILE_IS_DIRECTORY"
    /\ rd.opens = 0

(***************************************************************************)
(* Buffered read: resolveContent is _readFile(...).then(_asContent).  rd   *)
(* holds the state of _asContent: its result object, the promise it        *)
(* returns and the decoded stream it listens to.                           *)
(***************************************************************************)
\* The chunks a decoded stream delivers: strings, as sequences of characters.
Chunks == {<<"x">>, <<"y", "z">>}

NoBuffered ==
    [pc |-> "idle", stream |-> "none", content |-> NoContent,
     result |-> NoContent,     \* the local object `result`
     settled |-> NoContent,    \* the value the promise was resolved with
     error |-> NoError,        \* the error the promise was rejected with
     emitted |-> <<>>]         \* the chunks the stream has delivered so far

\* The IStreamContent values _readFile resolves with (lines 320-329).
StreamContents ==
    {[encoding |-> "utf8", resource |-> q, name |-> basename(q),
      etag |-> etag(m, 1), mtime |-> m, isReadonly |-> ro, size |-> 1,
      value |-> "stream"] :
        q \in {<<"a">>, <<"a", "b">>}, m \in 1..MaxMtime, ro \in BOOLEAN}

\* _readFile has rejected: .then(_asContent) passes the rejection on and
\* _asContent is not called (line 267).
resolveContent_rejected ==
    /\ rd.pc = "idle"
    /\ rd' = [NoBuffered EXCEPT !.pc = "rejected",
                                !.error = [kind |-> "Unknown", typed |-> FALSE]]

\* _asContent(content): the promise's executor (lines 417-431) builds
\* `result` with an empty value and attaches the three listeners.
_asContent(content) ==
    /\ rd.pc = "idle"
    /\ rd' = [NoBuffered EXCEPT
                !.pc = "reading", !.stream = "flowing", !.content = content,
                !.result = [value |-> <<>>,
                            encoding |-> content.encoding,
                            etag |-> content.etag,
                            size |-> content.size,
                            mtime |-> content.mtime,
                            name |-> content.name,
                            resource |-> content.resource,
                            isReadonly |-> content.isReadonly]]

\* content.value.on('data', chunk => result.value += chunk)
_asContent_onData(chunk) ==
    /\ rd.stream = "flowing"
    /\ Len(rd.emitted) < MaxChunks
    /\ rd' = [rd EXCEPT !.emitted = Append(@, chunk),
                        !.result.value = @ \o chunk]

\* content.value.on('end', () => resolve(result)): a promise settles once.
_asContent_onEnd ==
    /\ rd.stream = "flowing"
    /\ rd' = [rd EXCEPT !.stream = "ended",
                        !.pc = IF rd.pc = "reading" THEN "resolved" ELSE @,
                        !.settled = IF rd.pc = "reading" THEN rd.result ELSE @]

_asContent_onError_Resolve ==
    /\ rd.stream = "flowing"
    /\ rd' = [rd EXCEPT !.stream = "errored",
                        !.pc = IF rd.pc = "reading" THEN "resolved" ELSE @,
                        !.settled = IF rd.pc = "reading" THEN rd.result ELSE @]

\* content.value.on('error', reject)
_asContent_onError ==
    /\ rd.stream = "flowing"
    /\ rd' = [rd EXCEPT !.stream = "errored",
                        !.pc = IF rd.pc = "reading" THEN "rejected" ELSE @,
                        !.error = IF rd.pc = "reading"
                                  THEN [kind |-> "Unknown", typed |-> FALSE] ELSE @]

(***************************************************************************)
(* SpecContent: one buffered read; the decoded stream delivers chunks and  *)
(* then ends or fails, and delivers nothing after that.                    *)
(***************************************************************************)
InitContent ==
    /\ RegInit /\ WatchInit /\ lastCall = NoCall
    /\ fs = <<>> /\ procs = <<>> /\ rs = <<>>
    /\ rd = NoBuffered

ContentIdle == UNCHANGED <<regVars, watchVars, lastCall, fs, procs, rs, ws>>

ReadRejected == resolveContent_rejected /\ ContentIdle
AsContent == \E content \in StreamContents : _asContent(content) /\ ContentIdle
StreamData == \E chunk \in Chunks : _asContent_onData(chunk) /\ ContentIdle
StreamEnd == _asContent_onEnd /\ ContentIdle
StreamError == _asContent_onError /\ ContentIdle

NextContent == ReadRejected \/ AsContent \/ StreamData \/ StreamEnd \/ StreamError

SpecContent == InitContent /\ [][NextContent]_vars

RECURSIVE Concat(_)
Concat(chunks) == IF chunks = <<>> THEN <<>> ELSE Head(chunks) \o Concat(Tail(chunks))

\* C29: the buffered read resolves only when the stream has ended, with the
\* metadata of the stream content and, as value, the concatenation of all
\* the chunks the stream delivered, in order; when the stream signals an
\* error the call is rejected and resolves with nothing; until one of the
\* two the call is pending.
C29_BufferedReadComplete ==
    /\ rd.pc = "resolved" =>
         /\ rd.stream = "ended"
         /\ rd.settled.value = Concat(rd.emitted)
         /\ rd.settled = [rd.content EXCEPT !.value = Concat(rd.emitted)]
    /\ rd.stream = "ended" => rd.pc = "resolved"
    /\ rd.stream = "errored" => rd.pc = "rejected"
    /\ rd.pc = "rejected" => rd.settled = NoContent /\ rd.error # NoError
    /\ rd.stream = "flowing" => rd.pc = "reading" /\ rd.settled = NoContent

\* C29 witness: a read resolved after the stream delivered several different
\* chunks and ended.
C29_Witness ==
    /\ rd.pc = "resolved" /\ rd.stream = "ended"
    /\ Len(rd.emitted) = MaxChunks
    /\ rd.emitted[1] # rd.emitted[2]
    /\ rd.settled.value = Concat(rd.emitted)

(***************************************************************************)
(* SpecFacade: every operation of the service called with resources of the *)
(* local scheme and of a provider scheme, while a provider is registered   *)
(* and unregistered.  Whether an operation goes to the local               *)
(* implementation is decided in the synchronous part of the call, so the   *)
(* operations are followed up to their first suspension.                   *)
(***************************************************************************)
FacadeURIs == {URI(LocalScheme, TRUE, <<"a">>), URI("foo", TRUE, <<"a">>),
               URI("foo", FALSE, <<"a">>)}

InitFacade ==
    /\ RegInit /\ WatchInit /\ lastCall = NoCall
    /\ fs = ReadTree
    /\ procs = [w \in Writers |-> NewProc("none", URI("", FALSE, Root), FALSE)]
    /\ rs = NoResolve
    /\ rd = NoRead

FacadeResolve == \E uri \in FacadeURIs :
    resolveFile(uri, {}) /\ UNCHANGED <<regVars, watchVars, lastCall, procs, rd, ws>>
FacadeRead == \E uri \in FacadeURIs :
    resolveStreamContent(uri, NoRead.options)
        /\ UNCHANGED <<regVars, watchVars, lastCall, procs, rs, ws>>
FacadeCreate == \E uri \in FacadeURIs :
    createFile(1, uri, FALSE) /\ UNCHANGED <<regVars, watchVars, lastCall, rs, rd, ws>>
FacadeUpdate == \E uri \in FacadeURIs :
    updateContent(2, uri) /\ UNCHANGED <<regVars, watchVars, lastCall, rs, rd, ws>>

NextFacade == \/ RegisterOne \/ Unregister
              \/ FacadeResolve \/ FacadeRead \/ FacadeCreate \/ FacadeUpdate
              \/ Watch \/ Unwatch

SpecFacade == InitFacade /\ [][NextFacade]_vars

\* A step in which an operation is handed to the local implementation.
LocalStep ==
    \/ rs.pc = "idle" /\ rs'.pc = "local"
    \/ rd.pc = "idle" /\ rd'.pc = "local"
    \/ \E w \in Writers : procs[w].pc = "idle" /\ procs'[w].pc = "local"
    \/ lastCall' # lastCall /\ lastCall'.result = "local"

\* C30: an operation called on a resource of the local scheme is handed to
\* the local implementation: it does not wait for an activation, gets no
\* provider and calls none, and the step leaves the registry and the watch
\* entries as they are, so no entry and no subscription is ever held for a
\* local resource; an operation on a resource of another scheme is never
\* handed to the local implementation.
C30_LocalDelegated ==
    /\ [](/\ \A w \in Writers :
               procs[w].op # "none" =>
                  /\ procs[w].pc = "local" <=> procs[w].scheme = LocalScheme
                  /\ procs[w].pc = "local" =>
                        procs[w].provider = NoProvider /\ procs[w].calls = <<>>
          /\ rs.pc # "idle" =>
                  /\ rs.pc = "local" <=> rs.scheme = LocalScheme
                  /\ rs.pc = "local" => rs.provider = NoProvider /\ rs.nodes = <<>>
          /\ rd.pc # "idle" =>
                  /\ rd.pc = "local" <=> rd.scheme = LocalScheme
                  /\ rd.pc = "local" => rd.provider = NoProvider /\ ~rd.statted
          /\ lastCall.op \in {"watchFileChanges", "unwatchFileChanges"} =>
                  (lastCall.result = "local" <=> lastCall.arg[1].scheme = LocalScheme)
          /\ \A r \in WatchResources :
                  r.scheme = LocalScheme => _activeWatches[r] = NoEntry
          /\ \A i \in 1..MaxSubs : subs[i].resource.scheme # LocalScheme)
    /\ [][LocalStep => UNCHANGED <<regVars, watchVars>>]_vars

\* C30 witness: with a provider registered and a watch entry held for a
\* resource of its scheme, a resolve, a read, a create and a write of file:/a
\* have been handed to the local implementation, and so has the last watch
\* or unwatch call.
C30_Witness ==
    /\ _provider["foo"] # NoProvider
    /\ \E r \in WatchResources : _activeWatches[r] # NoEntry
    /\ rs.pc = "local" /\ rd.pc = "local"
    /\ procs[1].op = "createFile" /\ procs[1].pc = "local"
    /\ procs[2].op = "updateContent" /\ procs[2].pc = "local"
    /\ lastCall.result = "local"

(***************************************************************************)
(* SpecEtag: toIFileStat applied to the stats of two resources, and a      *)
(* second time to the first.  rs holds the tuples and the file stats.      *)
(***************************************************************************)
EtagTuples ==
    [provider : Providers, resource : {<<"a">>, <<"a", "b">>},
     stat : {IStat(t, m, z) : t \in {FileType.File, FileType.Directory},
                              m \in 0..MaxMtime, z \in 0..MaxSize}]

NoTuple == [provider |-> NoProvider, resource |-> Root, stat |-> IStat({}, 0, 0)]

NoStats == [n |-> 0, first |-> NoTuple, second |-> NoTuple,
            a |-> NoFileStat, b |-> NoFileStat, again |-> NoFileStat]

toIFileStat(t) == FileStatOf(t.provider, t.resource, t.stat)

InitEtag ==
    /\ RegInit /\ WatchInit /\ lastCall = NoCall
    /\ fs = <<>> /\ procs = <<>> /\ rd = <<>>
    /\ rs = NoStats

EtagIdle == UNCHANGED <<regVars, watchVars, lastCall, fs, procs, rd, ws>>

StatFirst == \E t \in EtagTuples :
    /\ rs.n = 0
    /\ rs' = [rs EXCEPT !.n = 1, !.first = t, !.a = toIFileStat(t)]
    /\ EtagIdle
StatSecond == \E t \in EtagTuples :
    /\ rs.n = 1
    /\ rs' = [rs EXCEPT !.n = 2, !.second = t, !.b = toIFileStat(t)]
    /\ EtagIdle
StatAgain ==
    /\ rs.n = 2
    /\ rs' = [rs EXCEPT !.n = 3, !.again = toIFileStat(rs.first)]
    /\ EtagIdle

NextEtag == StatFirst \/ StatSecond \/ StatAgain

SpecEtag == InitEtag /\ [][NextEtag]_vars

StepOf(proc, c) ==
    IF c.op = "stat" /\ c.path # proc.resource THEN 1
    ELSE IF c.op = "mkdir" THEN 2
    ELSE IF c.op = "write" THEN 3
    ELSE 4

\* C32: a write calls the provider in the order of its steps (the stats and
\* then the mkdirs of the directories, the write, the stat of the
\* re-resolve), and only with a provider that is not readonly; a failed
\* mkdir or write is the last call made; the write is made only when every
\* mkdir before it succeeded, the re-resolve only right after a write that
\* finished; and a write that has failed, or hangs, takes no further step.
C32_WriteStepsInOrder ==
    /\ [](\A w \in Writers :
            LET proc == procs[w] IN
            IsWrite(proc) =>
              /\ \A i, j \in DOMAIN proc.calls :
                    i < j => StepOf(proc, proc.calls[i]) <= StepOf(proc, proc.calls[j])
              /\ proc.calls # <<>> =>
                    proc.provider # NoProvider /\ ~_throwIfFileSystemIsReadonly(proc.provider)
              /\ proc.pc \in {"walk", "create", "write", "reresolve", "done"} =>
                    proc.provider # NoProvider
              /\ \A i \in DOMAIN proc.calls :
                    /\ (proc.calls[i].op \in {"mkdir", "write"} /\ ~proc.calls[i].ok) =>
                          i = Len(proc.calls) /\ proc.pc = "failed"
                    /\ StepOf(proc, proc.calls[i]) = 4 =>
                          /\ i > 1 /\ i = Len(proc.calls)
                          /\ proc.calls[i - 1].op = "write" /\ proc.calls[i - 1].ok
              /\ proc.pc \in {"reresolve", "done"} =>
                    \E i \in DOMAIN proc.calls : proc.calls[i].op = "write" /\ proc.calls[i].ok)
    /\ [][\A w \in Writers :
            procs[w].pc \in {"failed", "pending"} => procs'[w] = procs[w]]_vars

\* C32 witness: a createFile has gone through every step: it found a
\* directory missing, made it, wrote the file and re-resolved it.
C32_Witness ==
    \E w \in Writers :
        /\ procs[w].op = "createFile" /\ procs[w].pc = "done"
        /\ {procs[w].calls[i].op : i \in DOMAIN procs[w].calls} = {"stat", "mkdir", "write"}
        /\ StepOf(procs[w], procs[w].calls[1]) = 1
        /\ StepOf(procs[w], LastCall(procs[w])) = 4

(***************************************************************************)
(* SpecRevalidate: one read, one createFile and the watches of one         *)
(* resource, while providers of the scheme are registered and their        *)
(* registrations disposed at every suspension.                             *)
(***************************************************************************)
RevalidateRead  == URI("foo", TRUE, <<"a">>)
RevalidateWrite == URI("foo", TRUE, <<"b", "a">>)

InitRevalidate ==
    /\ WatchInit /\ lastCall = NoCall /\ rs = <<>>
    /\ _provider = [s \in Schemes |-> IF s = "foo" THEN "A" ELSE NoProvider]
    /\ handles = {[scheme |-> "foo", provider |-> "A"]}
    /\ fs = ReadTree
    /\ procs = [w \in Writers |-> NewProc("none", URI("", FALSE, Root), FALSE)]
    /\ rd = NoRead

RegisterFoo == \E p \in Providers :
    registerProvider("foo", p) /\ UNCHANGED <<watchVars, fs, procs, rs, rd, ws>>
RevalidateReadStart ==
    resolveStreamContent(RevalidateRead, NoRead.options)
        /\ UNCHANGED <<regVars, watchVars, lastCall, procs, rs, ws>>
RevalidateCreate ==
    createFile(1, RevalidateWrite, TRUE)
        /\ UNCHANGED <<regVars, watchVars, lastCall, rs, rd, ws>>

NextRevalidate == \/ RegisterFoo \/ Unregister
                  \/ RevalidateReadStart \/ ReadProvider \/ ReadStat \/ ReadDecode
                  \/ RevalidateCreate \/ Activated \/ Walk \/ Create \/ WriteFile
                  \/ Reresolved
                  \/ WatchRemote \/ WatchResolved

SpecRevalidate == InitRevalidate /\ [][NextRevalidate]_vars

\* C33: every call a read, a write or a watch makes on a provider after a
\* suspension goes to the provider that is registered for the scheme when
\* the call is made: the stats and mkdirs of the directories and the write
\* of a write, the opening of the stream of a read, the watch of a watch.
C33_ProviderRevalidated ==
    [][/\ \A w \in Writers :
            (procs[w].pc \in {"walk", "create", "write"}
                /\ Len(procs'[w].calls) > Len(procs[w].calls)) =>
                    procs[w].provider = _provider[procs[w].scheme]
       /\ (rd.pc = "decoding" /\ rd'.opens > rd.opens) =>
                    rd.provider = _provider[rd.scheme]
       /\ \A i \in 1..MaxSubs :
            (subs[i].state = "activating" /\ subs'[i].state \in {"watching", "rejected"}) =>
                    subs'[i].provider = _provider[subs[i].resource.scheme]]_vars

(***************************************************************************)
(* The state machine of a watched resource (checked under Spec).           *)
(***************************************************************************)
\* C34: a resource is unwatched (no entry) or watched with a refcount of at
\* least 1, never in the map with a refcount of 0 or less; the refcount
\* moves by one per call; and an unwatchFileChanges on a resource without
\* entry changes no entry and no subscription, and schedules no disposal.
C34_WatchStateMachine ==
    /\ [](\A r \in WatchResources :
            _activeWatches[r] = NoEntry \/ _activeWatches[r].count >= 1)
    /\ [][/\ \A r \in WatchResources :
               _activeWatches'[r].count - _activeWatches[r].count \in {-1, 0, 1}
          /\ (lastCall' # lastCall /\ lastCall'.op = "unwatchFileChanges"
                /\ lastCall'.prev = NoEntry) => UNCHANGED watchVars]_vars

\* C34 witness: a resource was watched and unwatched, its subscription
\* disposed, and it has then been unwatched once more, without an entry.
C34_Witness ==
    /\ lastCall.op = "unwatchFileChanges" /\ lastCall.result = "ok"
    /\ lastCall.prev = NoEntry
    /\ _activeWatches[lastCall.arg[1]] = NoEntry
    /\ \E i \in 1..MaxSubs :
          /\ subs[i].resource = lastCall.arg[1]
          /\ subs[i].state = "watching" /\ subs[i].disposed = 1

(***************************************************************************)
(* Disposal of registrations (checked under SpecRegistry).                 *)
(***************************************************************************)
\* C35: disposing a registration handle removes only the provider this
\* handle registered: when the scheme is held by another provider at that
\* moment (the handle was disposed before and the scheme registered again),
\* the dispose leaves that provider registered.
C35_DisposeOwnRegistrationOnly ==
    (lastCall.op = "disposeRegistration" /\ lastCall.prevProvider # lastCall.arg[2]) =>
        _provider[lastCall.arg[1]] = lastCall.prevProvider

(***************************************************************************)
(* Provider subscriptions per resource (checked under Spec).               *)
(***************************************************************************)
\* The subscriptions provider.watch has returned for a resource and that
\* have not been disposed.
OpenSubscriptions(resource) ==
    {i \in 1..MaxSubs : /\ subs[i].resource = resource
                        /\ subs[i].state = "watching"
                        /\ subs[i].disposed = 0}

\* C36: at any time a resource has at most one provider subscription that
\* has been created and not yet disposed.
C36_OneOpenSubscription ==
    \A r \in WatchResources : Cardinality(OpenSubscriptions(r)) <= 1

(***************************************************************************)
(* Metadata of a read (checked under SpecRead).                            *)
(***************************************************************************)
\* C37: the etag, mtime and size of a successful read are those of the
\* version of the file whose content is streamed, also when the file was
\* rewritten between the stat of the read and the opening of its stream.
C37_MetadataOfStreamedVersion ==
    rd.pc = "done" =>
        /\ rd.result.mtime = rd.result.value.mtime
        /\ rd.result.size = rd.result.value.size
        /\ rd.result.etag = etag(rd.result.value.mtime, rd.result.value.size)

(***************************************************************************)
(* Stats of a resolve (checked under SpecResolve).                         *)
(***************************************************************************)
\* C38: a resolve makes one provider.stat call, on its root, and none while
\* it expands directories; every node below the root is built from the type
\* of its readdir entry, and carries mtime 0, size 0 and the etag of (0, 0),
\* whatever the provider's stat of it would report.
C38_ChildrenFromTypeOnly ==
    /\ rs.stats = IF rs.pc \in {"idle", "local", "activating", "stat"} THEN 0
                  ELSE IF rs.pc \in {"expanding", "done"} THEN 1
                  ELSE IF rs.provider = NoProvider THEN 0 ELSE 1
    /\ \A c \in DOMAIN rs.nodes :
         c # rs.root =>
            /\ rs.nodes[c].mtime = 0 /\ rs.nodes[c].size = 0
            /\ rs.nodes[c].etag = etag(0, 0)
            /\ rs.nodes[c].isDirectory = IsDir(fs, c)

\* C38 witness: a resolve is done with one stat made, and has a child whose
\* stat by the provider has another mtime and size than the child carries.
C38_Witness ==
    /\ rs.pc = "done" /\ rs.stats = 1
    /\ \E c \in DOMAIN rs.nodes :
          /\ c # rs.root
          /\ fs[c].mtime = 1 /\ fs[c].size = 1
          /\ rs.nodes[c].etag = etag(0, 0)
    /\ \E c, d \in DOMAIN rs.nodes :
          c # d /\ c # rs.root /\ d # rs.root /\ rs.nodes[c].etag = rs.nodes[d].etag

(***************************************************************************)
(* Termination of the ensure-parent-directories routine.  Every provider   *)
(* call returns: a step of the routine that can be taken is taken.         *)
(***************************************************************************)
SpecMkdirpFair == InitMkdirp /\ [][NextMkdirp]_vars /\ WF_vars(NextMkdirp)

StatsOf(proc, r) == SelectSeq(proc.calls, LAMBDA c : IsStatOf(c, r))

\* C39: each run of _mkdirp on a directory of depth d makes at most d stat
\* calls, none of them on '/', and then at most d mkdir calls (no stat
\* follows a mkdir of the run), and the routine comes to its end.
C39_MkdirpTerminates ==
    /\ [](\A w \in DOMAIN procs : \A r \in 1..2 :
            LET proc == procs[w] IN
            /\ Len(StatsOf(proc, r)) <= Len(proc.resource)
            /\ Len(MkdirsOf(proc, r)) <= Len(proc.resource)
            /\ \A j \in DOMAIN proc.calls : proc.calls[j].op = "stat" => proc.calls[j].path # Root
            /\ \A j, k \in DOMAIN proc.calls :
                  (j < k /\ proc.calls[j].run = r /\ proc.calls[k].run = r
                     /\ proc.calls[j].op = "mkdir") => proc.calls[k].op = "mkdir")
    /\ <>(\A w \in DOMAIN procs : procs[w].pc = "done")

\* C39 witness: a run on a directory of the greatest depth found no level of
\* it, walked up to '/' with one stat per level and made every level.
C39_Witness ==
    \E w \in DOMAIN procs :
        /\ procs[w].pc = "done"
        /\ Len(procs[w].resource) = MaxDepth
        /\ Len(StatsOf(procs[w], 1)) = MaxDepth
        /\ Len(MkdirsOf(procs[w], 1)) = MaxDepth

(***************************************************************************)
(* WorkspaceConfiguration (configuration.ts) and the watch its             *)
(* FileServiceBasedWorkspaceConfiguration keeps on the configuration file. *)
(* ws holds the WorkspaceConfiguration, its current _workspaceConfiguration *)
(* and the watchFileChanges / unwatchFileChanges calls made on the file    *)
(* service, per configuration path.                                        *)
(***************************************************************************)
ConfigPaths == {URI(LocalScheme, TRUE, <<"w1">>), URI(LocalScheme, TRUE, <<"w2">>),
                URI("foo", TRUE, <<"w">>)}
NoConfigPath == URI("", FALSE, Root)

\* `kind` is the class of _workspaceConfiguration, `configIdentifier` the
\* _workspaceIdentifier of an AbstractWorkspaceConfiguration, `workspaceConfig`
\* the field of FileServiceBasedWorkspaceConfiguration.
NewWorkspaceConfiguration ==
    [_fileService |-> FALSE, _workspaceIdentifier |-> NoConfigPath,
     kind |-> "cached", configIdentifier |-> NoConfigPath,
     workspaceConfig |-> NoConfigPath,
     configDisposed |-> FALSE,   \* the FileServiceBasedWorkspaceConfiguration is disposed
     disposed |-> FALSE,         \* the WorkspaceConfiguration is disposed
     loads |-> 0,
     watched |-> [q \in ConfigPaths |-> 0],
     unwatched |-> [q \in ConfigPaths |-> 0]]

watchWorkspaceConfigurationFile(c) ==
    IF c.workspaceConfig # NoConfigPath
    THEN [c EXCEPT !.watched[c.workspaceConfig] = @ + 1] ELSE c

unWatchWorkspaceConfigurtionFile(c) ==
    IF c.workspaceConfig # NoConfigPath
    THEN [c EXCEPT !.unwatched[c.workspaceConfig] = @ + 1] ELSE c

\* FileServiceBasedWorkspaceConfiguration.loadWorkspaceConfigurationContents,
\* up to the resolveContent call (lines 392-396).
loadWorkspaceConfigurationContents(c, id) ==
    IF c.workspaceConfig # NoConfigPath /\ c.workspaceConfig = id
    THEN c
    ELSE watchWorkspaceConfigurationFile(
            [unWatchWorkspaceConfigurtionFile(c) EXCEPT !.workspaceConfig = id])

\* _workspaceConfiguration.load(workspaceIdentifier), by class (lines 318-320,
\* 355, 391, 437).
ConfigurationLoad(c, id) ==
    IF c.kind = "cached" THEN c
    ELSE IF c.kind = "node" THEN [c EXCEPT !.configIdentifier = id]
    ELSE loadWorkspaceConfigurationContents([c EXCEPT !.configIdentifier = id], id)

\* updateCache (lines 277-283), up to the first suspension.
updateCache(c) ==
    IF c._workspaceIdentifier # NoConfigPath
         /\ c._workspaceIdentifier.scheme # LocalScheme /\ c.kind = "file"
    THEN ConfigurationLoad(c, c._workspaceIdentifier) ELSE c

\* new FileServiceBasedWorkspaceConfiguration(fileService, from) (lines
\* 370-377): workspaceConfig is the path of from.workspaceIdentifier, which a
\* CachedWorkspaceConfiguration does not have (line 448).
NewFileServiceBased(c) ==
    watchWorkspaceConfigurationFile(
        [c EXCEPT !.kind = "file",
                  !.workspaceConfig = IF c.kind = "node" THEN c.configIdentifier
                                      ELSE NoConfigPath,
                  !.configIdentifier = NoConfigPath])

\* adoptWorkspaceConfiguration (lines 243-270): the state it leaves and the
\* boolean it returns.
adoptWorkspaceConfiguration(c) ==
    IF c._workspaceIdentifier = NoConfigPath THEN [c |-> c, r |-> FALSE]
    ELSE IF c._fileService
    THEN IF c.kind # "file"
         THEN IF c.kind = "cached"
              THEN [c |-> updateCache(NewFileServiceBased(c)), r |-> TRUE]
              ELSE [c |-> NewFileServiceBased(c), r |-> FALSE]
         ELSE [c |-> c, r |-> FALSE]
    ELSE IF c._workspaceIdentifier.scheme = LocalScheme
    THEN IF c.kind # "node"
         THEN [c |-> [c EXCEPT !.kind = "node", !.configIdentifier = NoConfigPath],
               r |-> TRUE]
         ELSE [c |-> c, r |-> FALSE]
    ELSE [c |-> c, r |-> FALSE]

\* WorkspaceConfiguration.load (lines 212-216).
WorkspaceConfiguration_load(c, id) ==
    ConfigurationLoad(adoptWorkspaceConfiguration([c EXCEPT !._workspaceIdentifier = id]).c, id)

\* WorkspaceConfiguration.adopt (lines 200-210).
WorkspaceConfiguration_adopt(c) ==
    IF ~c._fileService
    THEN LET a == adoptWorkspaceConfiguration([c EXCEPT !._fileService = TRUE]) IN
         IF a.r /\ a.c._workspaceIdentifier # NoConfigPath
         THEN ConfigurationLoad(a.c, a.c._workspaceIdentifier) ELSE a.c
    ELSE c

\* WorkspaceConfiguration.reload (lines 218-220).
WorkspaceConfiguration_reload(c) ==
    IF c._workspaceIdentifier # NoConfigPath
    THEN WorkspaceConfiguration_load(c, c._workspaceIdentifier) ELSE c

\* WorkspaceConfiguration.dispose: Disposable.dispose() disposes what was
\* given to _register, which is the emitter (line 189) and the onDidChange
\* listener (line 249), not the _workspaceConfiguration.
WorkspaceConfiguration_dispose(c) == [c EXCEPT !.disposed = TRUE]

(***************************************************************************)
(* SpecConfiguration: one WorkspaceConfiguration that is loaded, reloaded, *)
(* adopted by a file service and disposed.                                 *)
(***************************************************************************)
InitConfiguration ==
    /\ RegInit /\ lastCall = NoCall
    /\ _activeWatches = [r \in WatchResources |-> NoEntry]
    /\ subs = [i \in 1..MaxSubs |-> FreeSub]
    /\ fs = <<>> /\ procs = <<>> /\ rs = <<>> /\ rd = <<>>
    /\ ws = NewWorkspaceConfiguration

ConfigurationIdle == UNCHANGED <<regVars, watchVars, lastCall, fs, procs, rs, rd>>

ConfigLoad == \E q \in ConfigPaths :
    /\ ~ws.disposed /\ ws.loads < MaxLoads
    /\ ws' = [WorkspaceConfiguration_load(ws, q) EXCEPT !.loads = @ + 1]
    /\ ConfigurationIdle
ConfigReload ==
    /\ ~ws.disposed /\ ws.loads < MaxLoads
    /\ ws' = [WorkspaceConfiguration_reload(ws) EXCEPT !.loads = @ + 1]
    /\ ConfigurationIdle
ConfigAdopt ==
    /\ ~ws.disposed /\ ~ws._fileService
    /\ ws' = WorkspaceConfiguration_adopt(ws)
    /\ ConfigurationIdle
ConfigDispose ==
    /\ ~ws.disposed
    /\ ws' = WorkspaceConfiguration_dispose(ws)
    /\ ConfigurationIdle

NextConfiguration == ConfigLoad \/ ConfigReload \/ ConfigAdopt \/ ConfigDispose

SpecConfiguration == InitConfiguration /\ [][NextConfiguration]_vars

\* C40: the watch on the workspace configuration file is balanced.  While
\* the WorkspaceConfiguration is in use, the watch calls on a path exceed the
\* unwatch calls on it by one when it is the path of the file-service-based
\* configuration and by none otherwise; once the WorkspaceConfiguration is
\* disposed every watch call on every path is matched by one unwatch call.
C40_ConfigurationWatchBalanced ==
    \A q \in ConfigPaths :
        ws.watched[q] - ws.unwatched[q] =
            IF ~ws.disposed /\ ws.kind = "file" /\ ws.workspaceConfig = q THEN 1 ELSE 0

====
